---- MODULE Spec2Model ----
(***************************************************************************)
(* Model of the GOAP engine of upside-down-research/agentic:               *)
(*   - WorldState, Goal and Action (internal/goap)                         *)
(*   - GraphPersistence and GraphExecutor (persisted plan graph, executed  *)
(*     node by node with status updates)                                   *)
(*   - Planner.FindPlan (A* over world states with a container/heap open   *)
(*     set)                                                                *)
(*   - HierarchicalPlanner.PlanHierarchical with its goal refiners         *)
(*     (MockGoalRefiner, the README's CustomRefiner, LLMGoalRefiner)       *)
(***************************************************************************)
EXTENDS Integers, Sequences, FiniteSets, TLC

\* ------------------------------------------------------------------ bounds
\* Number of Execute calls made on the same persisted graph.
MaxRuns == 2

\* ------------------------------------------------------------- world state
\* A WorldState is a function from a finite set of keys to values.  Values
\* carry their dynamic Go type: "true" is the bool true, "int:1" the int 1,
\* "float:1" the float64 1.  "nil" is what Get returns for an absent key.
EmptyWS == [k \in {} |-> "nil"]

WS1(k, v) == [x \in {k} |-> v]

WS2(k1, v1, k2, v2) == [x \in {k1, k2} |-> IF x = k1 THEN v1 ELSE v2]

\* WorldState.Get
Get(ws, key) == IF key \in DOMAIN ws THEN ws[key] ELSE "nil"

\* WorldState.Matches
Matches(ws, conditions) ==
    \A key \in DOMAIN conditions : key \in DOMAIN ws /\ ws[key] = conditions[key]

\* WorldState.Apply
Apply(ws, changes) ==
    [k \in (DOMAIN ws) \cup (DOMAIN changes) |->
        IF k \in DOMAIN changes THEN changes[k] ELSE ws[k]]

\* WorldState.Clone
Clone(ws) == [k \in DOMAIN ws |-> ws[k]]

\* encoding/json round trip of one value held in a map[string]interface{}:
\* every JSON number is decoded as a float64, bools and strings are kept.
JSONValue(v) == IF v = "int:1" THEN "float:1" ELSE v

JSONRoundTrip(ws) == [k \in DOMAIN ws |-> JSONValue(ws[k])]

\* --------------------------------------------------------------- actions
\* The executor's action table (GraphExecutor.actions): SimpleActions and
\* two CompositeActions, one of them with a precondition.  "Ghost" is
\* referenced by plans but not registered.
Registry ==
    [name \in {"SetA", "SetB", "SetN", "Seq", "Guarded"} |->
        CASE name = "SetA" ->
               [kind |-> "simple", pre |-> EmptyWS, eff |-> WS1("a", "true"),
                subs |-> <<>>]
          [] name = "SetB" ->
               [kind |-> "simple", pre |-> WS1("a", "true"),
                eff |-> WS1("b", "true"), subs |-> <<>>]
          [] name = "SetN" ->
               [kind |-> "simple", pre |-> EmptyWS, eff |-> WS1("n", "int:1"),
                subs |-> <<>>]
          [] name = "Seq" ->
               [kind |-> "composite", pre |-> EmptyWS,
                eff |-> WS1("c", "true"), subs |-> <<"SetA", "SetB">>]
          [] name = "Guarded" ->
               [kind |-> "composite", pre |-> WS1("a", "true"),
                eff |-> WS1("c", "true"), subs |-> <<"SetB">>]]

\* The nil error and error wrapping (fmt.Errorf("...: %w", err)).  An error
\* is the sequence of its wrappers, outermost first; each wrapper is a pair
\* <<what, about>>.
NoError == <<>>

Wrap(what, about, err) == <<<<what, about>>>> \o err

\* ctx.Err() of a cancelled context.
CtxErr == Wrap("context canceled", "", NoError)

\* The "%d (%s)" of CompositeAction.Execute's error: the index of the
\* subaction (counted from 0) and its name.
SubactionRef(index, name) == ToString(index) \o " (" \o name \o ")"

\* A precondition test that lets every state through.
CanExecuteAlways(name, current) == TRUE

\* BaseAction.CanExecute
CanExecute(name, current) == Matches(current, Registry[name].pre)

\* SimpleAction.Execute; fail says whether the execution callback returns
\* an error.  The result is the returned error, the state left behind and
\* the execution callbacks invoked.
SimpleExecute(name, current, fail) ==
    IF ~CanExecute(name, current)
    THEN [err |-> Wrap("preconditions not met", name, NoError), ws |-> current,
          invoked |-> <<>>]
    ELSE IF fail
         THEN [err |-> Wrap("execution failed", name, NoError), ws |-> current,
               invoked |-> <<name>>]
         ELSE [err |-> NoError, ws |-> Apply(current, Registry[name].eff),
               invoked |-> <<name>>]

\* A loop that goes on with the next subaction when one has failed.
RECURSIVE RunSubactionsIgnoringErrors(_, _, _, _, _)
RunSubactionsIgnoringErrors(name, i, current, failAt, ctxDone) ==
    LET subs == Registry[name].subs IN
    IF i > Len(subs)
    THEN [err |-> NoError, ws |-> Apply(current, Registry[name].eff),
          invoked |-> <<>>]
    ELSE LET r == SimpleExecute(subs[i], current, failAt = i)
             rest == RunSubactionsIgnoringErrors(name, i + 1, r.ws, failAt,
                                                 ctxDone)
         IN [rest EXCEPT !.invoked = r.invoked \o @,
                         !.err = IF r.err # NoError
                                 THEN Wrap("failed at subaction",
                                           SubactionRef(i - 1, subs[i]), r.err)
                                 ELSE @]

\* The loop of CompositeAction.Execute from subaction i on; failAt is the
\* subaction whose callback returns an error (0: none), ctxDone whether the
\* context is cancelled.
RECURSIVE RunSubactions(_, _, _, _, _)
RunSubactions(name, i, current, failAt, ctxDone) ==
    LET subs == Registry[name].subs IN
    IF i > Len(subs)
    THEN [err |-> NoError, ws |-> Apply(current, Registry[name].eff),
          invoked |-> <<>>]
    ELSE IF ctxDone
         THEN [err |-> Wrap("interrupted at subaction", ToString(i - 1),
                            CtxErr),
               ws |-> current, invoked |-> <<>>]
         ELSE LET r == SimpleExecute(subs[i], current, failAt = i) IN
              IF r.err # NoError
              THEN [err |-> Wrap("failed at subaction",
                                 SubactionRef(i - 1, subs[i]), r.err),
                    ws |-> r.ws, invoked |-> r.invoked]
              ELSE LET rest == RunSubactions(name, i + 1, r.ws, failAt, ctxDone)
                   IN [rest EXCEPT !.invoked = r.invoked \o @]

\* CompositeAction.Execute
CompositeExecute(name, current, failAt, ctxDone) ==
    IF ~CanExecute(name, current)
    THEN [err |-> Wrap("preconditions not met", name, NoError), ws |-> current,
          invoked |-> <<>>]
    ELSE RunSubactions(name, 1, current, failAt, ctxDone)

\* Action.Execute, dispatched on the action's type.
ActionExecute(name, current, failAt, ctxDone) ==
    IF Registry[name].kind = "simple"
    THEN SimpleExecute(name, current, failAt = 1)
    ELSE CompositeExecute(name, current, failAt, ctxDone)

\* Number of execution callbacks an action may run.
Callbacks(name) ==
    IF Registry[name].kind = "simple" THEN 1 ELSE Len(Registry[name].subs)

\* ------------------------------------------------------- wrapper actions
\* Most retries tried.
MaxRetriesTried == 1

\* The BaseAction NewRetryAction builds around the wrapped action.
NewRetryAction(wrapped) ==
    [pre |-> Registry[wrapped].pre, eff |-> Registry[wrapped].eff]

\* RetryAction.Execute from the given attempt on; failAts[attempt + 1] is
\* the callback of the wrapped action that fails in that attempt (0: none).
RECURSIVE RetryAttempts(_, _, _, _, _, _)
RetryAttempts(wrapped, maxRetries, attempt, current, failAts, lastErr) ==
    IF attempt > maxRetries
    THEN [err |-> Wrap("failed after retries", wrapped, lastErr),
          ws |-> current, invoked |-> <<>>]
    ELSE LET r == ActionExecute(wrapped, current, failAts[attempt + 1], FALSE) IN
         IF r.err = NoError
         THEN r
         ELSE LET rest == RetryAttempts(wrapped, maxRetries, attempt + 1, r.ws,
                                        failAts, r.err)
              IN [rest EXCEPT !.invoked = r.invoked \o @]

\* RetryAction.Execute
RetryExecute(wrapped, maxRetries, current, failAts) ==
    IF ~Matches(current, NewRetryAction(wrapped).pre)
    THEN [err |-> Wrap("preconditions not met for Retry", wrapped, NoError),
          ws |-> current, invoked |-> <<>>]
    ELSE RetryAttempts(wrapped, maxRetries, 0, current, failAts, NoError)

\* The BaseAction NewFallbackAction builds: the preconditions and effects
\* of the primary action, overwritten by and extended with the fallback's.
NewFallbackAction(primary, fallback) ==
    [pre |-> Apply(Clone(Registry[primary].pre), Registry[fallback].pre),
     eff |-> Apply(Clone(Registry[primary].eff), Registry[fallback].eff)]

\* FallbackAction.Execute: the primary action is run first; when it fails,
\* two keys are set and the fallback action is run.
FallbackExecute(primary, fallback, current, failPrimary, failFallback) ==
    LET r1 == ActionExecute(primary, current, failPrimary, FALSE) IN
    IF r1.err = NoError
    THEN r1
    ELSE LET marked == Apply(r1.ws, WS2("used_fallback", "true",
                                        "primary_failure_reason", "error text"))
             r2 == ActionExecute(fallback, marked, failFallback, FALSE)
         IN IF r2.err # NoError
            THEN [err |-> Wrap("both primary and fallback failed", primary,
                               r2.err),
                  ws |-> r2.ws, invoked |-> r1.invoked \o r2.invoked]
            ELSE [r2 EXCEPT !.invoked = r1.invoked \o @]

\* The simple action whose callback runs first when the action is executed.
InFlight(wrapped) ==
    IF Registry[wrapped].kind = "simple"
    THEN wrapped
    ELSE Registry[wrapped].subs[1]

\* TimeoutAction.Execute: the goroutines still running the wrapped action
\* on the map ref when Execute returns: the one it started, when the
\* deadline won the select and the wrapped action, past its precondition
\* test, was still in its first callback.
Orphans(wrapped, current, ref, timedOut, finished) ==
    IF /\ timedOut
       /\ ~finished
       /\ Matches(current, Registry[wrapped].pre)
       /\ Matches(current, Registry[InFlight(wrapped)].pre)
    THEN {[ref |-> ref, action |-> InFlight(wrapped)]}
    ELSE {}

\* The BaseAction NewTimeoutAction builds around the wrapped action.
NewTimeoutAction(wrapped) ==
    [pre |-> Registry[wrapped].pre, eff |-> Registry[wrapped].eff]

\* TimeoutAction.Execute: the wrapped action runs in a goroutine under a
\* context with a deadline; the select takes either its result or the
\* deadline.  When the deadline wins, the goroutine goes on on the same
\* map: finished says whether it is through when Execute returns.
TimeoutExecute(wrapped, current, failAt, timedOut, finished) ==
    IF ~Matches(current, NewTimeoutAction(wrapped).pre)
    THEN [err |-> Wrap("preconditions not met for Timeout", wrapped, NoError),
          ws |-> current, invoked |-> <<>>]
    ELSE LET r == ActionExecute(wrapped, current, failAt, FALSE)
         IN IF timedOut
            THEN [err |-> Wrap("timed out", wrapped, NoError),
                  ws |-> IF finished THEN r.ws ELSE current,
                  invoked |-> IF finished THEN r.invoked ELSE <<>>]
            ELSE IF r.err # NoError
                 THEN [r EXCEPT !.err = Wrap("action failed", "", @)]
                 ELSE r

\* ----------------------------------------------------------------- planner
VARIABLES
    pActions,     \* Planner.actions, in registration order
    pCurrent,     \* the current state handed to FindPlan
    pGoal,        \* the goal's desiredState
    openSet,      \* the PriorityQueue, as the slice container/heap keeps it
    closed,       \* the keys of the visited map that are true
    iterations,   \* FindPlan's iteration counter
    pPhase,       \* "idle", "search" (inside the loop) or "done"
    plan          \* what FindPlan returned

planVars == <<pActions, pCurrent, pGoal, openSet, closed, iterations, pPhase,
              plan>>

\* FindPlan's maxIterations.
MaxIterations == 1000

\* Largest action cost tried.
MaxCost == 2

\* Longest action sequence compared with the returned plan.
MaxPlanLen == 4

\* fmt's %v of a value, as WorldState.String prints it.
Render(v) ==
    CASE v = "int:1" -> "1"
      [] v = "float:1" -> "1"
      [] OTHER -> v

\* WorldState.String: the sorted "key: value" list, held as the map from
\* each key to its printed value.
String(ws) == [k \in DOMAIN ws |-> Render(ws[k])]

\* WorldState.Distance
Distance(ws, goal) ==
    Cardinality({k \in DOMAIN goal : k \notin DOMAIN ws \/ ws[k] # goal[k]})

\* A goal test that accepts a state matching any one of the goal's keys.
IsSatisfiedByAnyKey(goal, current) ==
    \E key \in DOMAIN goal : key \in DOMAIN current /\ current[key] = goal[key]

\* Goal.IsSatisfied
IsSatisfied(goal, current) == Matches(current, goal)

\* Node.FCost
FCost(n) == n.gCost + n.hCost

\* PriorityQueue.Less on the slice h (0-based indices, as in Go).
Less(h, i, j) == FCost(h[i + 1]) < FCost(h[j + 1])

\* PriorityQueue.Swap
Swap(h, i, j) == [h EXCEPT ![i + 1] = h[j + 1], ![j + 1] = h[i + 1]]

\* container/heap up
RECURSIVE HeapUp(_, _)
HeapUp(h, j) ==
    LET i == (j - 1) \div 2 IN
    IF j <= 0 \/ i = j \/ ~Less(h, j, i)
    THEN h
    ELSE HeapUp(Swap(h, i, j), i)

\* container/heap down
RECURSIVE HeapDown(_, _, _)
HeapDown(h, i, n) ==
    LET j1 == 2 * i + 1 IN
    IF j1 >= n
    THEN h
    ELSE LET j == IF j1 + 1 < n /\ Less(h, j1 + 1, j1) THEN j1 + 1 ELSE j1 IN
         IF ~Less(h, j, i)
         THEN h
         ELSE HeapDown(Swap(h, i, j), j, n)

\* heap.Push: PriorityQueue.Push appends, then up.
HeapPush(h, x) == HeapUp(Append(h, x), Len(h))

\* heap.Pop: swap the root with the last element, down, then
\* PriorityQueue.Pop removes the last element.  The result is the node and
\* the remaining slice.
HeapPop(h) ==
    LET n == Len(h) - 1
        d == HeapDown(Swap(h, 0, n), 0, n)
    IN [node |-> d[n + 1], rest |-> SubSeq(d, 1, n)]

\* A search node that forgets what its actions cost.
SearchNodeWithoutCost(state, actions, gCost, goal) ==
    [state |-> state, actions |-> actions, gCost |-> 0,
     hCost |-> Distance(state, goal)]

\* FindPlan: the search node of a state reached by the given actions.
SearchNode(state, actions, gCost, goal) ==
    [state |-> state, actions |-> actions, gCost |-> gCost,
     hCost |-> Distance(state, goal)]

\* FindPlan: the expansion loop over p.actions from index i on.
RECURSIVE Expand(_, _, _, _, _, _)
Expand(h, node, acts, i, seen, goal) ==
    IF i > Len(acts)
    THEN h
    ELSE LET action == acts[i]
             newState == Apply(Clone(node.state), action.eff)
         IN
         IF ~Matches(node.state, action.pre) \/ String(newState) \in seen
         THEN Expand(h, node, acts, i + 1, seen, goal)
         ELSE Expand(HeapPush(h, SearchNode(newState,
                                            Append(node.actions, action.name),
                                            node.gCost + action.cost, goal)),
                     node, acts, i + 1, seen, goal)

\* A loop test that forgets the iteration cap.
LoopGoesOnWhileOpen(open, iters) == Len(open) > 0

\* FindPlan: the loop test, openSet.Len() > 0 && iterations < maxIterations.
LoopGoesOn(open, iters) == Len(open) > 0 /\ iters < MaxIterations

NoPlan == [found |-> FALSE, actions |-> <<>>, cost |-> 0]

Plan(actions, cost) == [found |-> TRUE, actions |-> actions, cost |-> cost]

\* ------------------------------------------------------- persisted graph
VARIABLES
    graph,         \* the persisted PlanGraph: node id -> GraphNode
    initialState,  \* the caller's WorldState handed to Execute
    currentState,  \* Execute's working state (currentState)
    stack,         \* the executeNode calls in progress, outermost first
    phase,         \* "idle", "running" (inside Execute) or "done"
    execErr,       \* the error the last Execute returned
    runs,          \* Execute calls made so far
    cancelled,     \* whether the context of the running call is cancelled
    startGraph,    \* the graph as it was when the running call began
    visited,       \* the nodes the running call has entered, in order
    calls          \* the action.Execute calls the running call has made

execVars == <<graph, initialState, currentState, stack, phase, execErr, runs,
              cancelled, startGraph, visited, calls>>

\* ---------------------------------------------------- hierarchical planner
VARIABLES
    hRefiner,      \* HierarchicalPlanner.refiner
    hMaxDepth,     \* HierarchicalPlanner.maxDepth
    hCurrent,      \* the caller's state handed to PlanHierarchical
    hGoal,         \* the goal handed to PlanHierarchical
    hStack,        \* the planRecursive calls in progress, outermost first
    hPhase,        \* "idle", "planning" or "done"
    hResult,       \* what PlanHierarchical returned
    hLog           \* the planRecursive and Refine calls made, in order

hierVars == <<hRefiner, hMaxDepth, hCurrent, hGoal, hStack, hPhase, hResult,
              hLog>>

\* ------------------------------------------------ a caller's world states
\* A WorldState is a Go map, a reference: heap holds the maps allocated so
\* far and a reference is an index into it.
VARIABLES
    heap,          \* the maps allocated so far
    orig,          \* the caller's variable s
    copy,          \* the caller's variable c (0 before c = s.Clone())
    last,          \* the last call the caller made, with its result
    ops,           \* calls made so far
    running        \* the goroutines still at work on a map

unitVars == <<heap, orig, copy, last, ops, running>>

\* ------------------------------------------------------- the built graph
VARIABLES
    built,         \* the PlanGraph BuildGraphFromPlan made of the returned plan
    executed       \* what HierarchicalPlan.Execute did with the returned plan

buildVars == <<built, executed>>

\* ------------------------------------------------------- the graph files
VARIABLES
    files,         \* the files of the run's graph directory: path -> content
    saving,        \* the SaveGraph call in progress
    saved,         \* what the last SaveGraph or UpdateNodeStatus call returned
    reads,         \* what the last read by another reader found
    saves          \* SaveGraph and UpdateNodeStatus calls made so far

diskVars == <<files, saving, saved, reads, saves>>

\* ------------------------------------------- a second Execute invocation
VARIABLES
    other          \* another Execute call on the same run, up to its first
                   \* status update

otherVars == <<other>>

\* The variables of the parts added to the engine's core.
restVars == <<unitVars, buildVars, diskVars, otherVars>>

vars == <<execVars, planVars, hierVars, restVars>>

\* NodeResult; Present is FALSE for a nil *NodeResult.
NoResult ==
    [Present |-> FALSE, Success |-> FALSE, ErrorMessage |-> NoError,
     StateChanges |-> EmptyWS]

NodeResult(success, msg, changes) ==
    [Present |-> TRUE, Success |-> success, ErrorMessage |-> msg,
     StateChanges |-> changes]

\* A graph node that does not record its parent.
GraphNodeWithoutParent(id, desired, parent, children, actions) ==
    [ID |-> id, DesiredState |-> desired, ParentID |-> "",
     ChildIDs |-> children, ActionNames |-> actions,
     IsAtomic |-> (children = <<>>), Status |-> "pending",
     Result |-> NoResult]

\* The GraphNode that BuildGraphFromPlan creates: IsAtomic is
\* hp.IsAtomic(), that is "no subplans"; the status starts pending.
GraphNode(id, desired, parent, children, actions) ==
    [ID |-> id, DesiredState |-> desired, ParentID |-> parent,
     ChildIDs |-> children, ActionNames |-> actions,
     IsAtomic |-> (children = <<>>), Status |-> "pending",
     Result |-> NoResult]

\* Goals and atomic plans the graphs are built from.
CompositeGoals == {WS1("a", "true"), WS2("a", "true", "b", "true")}

AtomicPlans ==
    { [desired |-> WS1("a", "true"), actions |-> <<"SetA">>],
      [desired |-> WS1("b", "true"), actions |-> <<"SetB">>],
      [desired |-> WS2("a", "true", "b", "true"), actions |-> <<"SetA", "SetB">>],
      [desired |-> WS1("c", "true"), actions |-> <<"Seq">>],
      [desired |-> WS1("c", "true"), actions |-> <<"Guarded">>],
      [desired |-> WS1("n", "int:1"), actions |-> <<"SetN">>],
      [desired |-> WS1("b", "true"), actions |-> <<"Ghost">>],
      [desired |-> WS1("a", "true"), actions |-> <<>>] }

\* The atomic plans used under the nested composite plan.
DeepPlans ==
    { [desired |-> WS1("a", "true"), actions |-> <<"SetA">>],
      [desired |-> WS1("b", "true"), actions |-> <<"SetB">>],
      [desired |-> WS1("c", "true"), actions |-> <<"Seq">>] }

\* BuildGraphFromPlan on a single atomic plan.
Graph1(l1) ==
    [id \in {"node_1"} |-> GraphNode(id, l1.desired, "", <<>>, l1.actions)]

\* BuildGraphFromPlan on a composite plan with two atomic subplans.
Graph3(g1, l2, l3) ==
    [id \in {"node_1", "node_2", "node_3"} |->
        CASE id = "node_1" -> GraphNode(id, g1, "", <<"node_2", "node_3">>, <<>>)
          [] id = "node_2" -> GraphNode(id, l2.desired, "node_1", <<>>, l2.actions)
          [] id = "node_3" -> GraphNode(id, l3.desired, "node_1", <<>>, l3.actions)]

\* BuildGraphFromPlan on a composite plan whose first subplan is composite.
Graph5(g1, g2, l3, l4, l5) ==
    [id \in {"node_1", "node_2", "node_3", "node_4", "node_5"} |->
        CASE id = "node_1" -> GraphNode(id, g1, "", <<"node_2", "node_5">>, <<>>)
          [] id = "node_2" -> GraphNode(id, g2, "node_1", <<"node_3", "node_4">>, <<>>)
          [] id = "node_3" -> GraphNode(id, l3.desired, "node_2", <<>>, l3.actions)
          [] id = "node_4" -> GraphNode(id, l4.desired, "node_2", <<>>, l4.actions)
          [] id = "node_5" -> GraphNode(id, l5.desired, "node_1", <<>>, l5.actions)]

RootNodeID == "node_1"

\* The initial states a caller hands to Execute.
InitialStates == {EmptyWS, WS1("a", "true"), WS2("a", "true", "b", "true")}

\* GraphPersistence.LoadNodeContext: the node as read back from its JSON
\* file.
LoadNodeContext(g, nodeID) ==
    [g[nodeID] EXCEPT !.DesiredState = JSONRoundTrip(@)]

\* An update that saves the graph held in memory since Execute began
\* instead of reloading it.
UpdateNodeStatusOfStaleGraph(g, nodeID, status, result) ==
    [startGraph EXCEPT ![nodeID].Status = status, ![nodeID].Result = result]

\* GraphPersistence.UpdateNodeStatus: load the graph, set the node's status
\* and result, save the graph.
UpdateNodeStatus(g, nodeID, status, result) ==
    [g EXCEPT ![nodeID].Status = status, ![nodeID].Result = result]

\* -------------------------------------------------------- graph executor
\* One executeNode call in progress: the node, where the call stands
\* ("enter": before the running update; "check": before the goal check;
\* "exec": in the action or child loop at index idx; "fail": execErr is set
\* and the failed update is next), execErr, and the working state as it
\* was when the node was entered.
Frame(nodeID) ==
    [node |-> nodeID, pc |-> "enter", idx |-> 0, err |-> NoError,
     entry |-> EmptyWS]

Top == stack[Len(stack)]

\* executeNode: goalState, built from node.DesiredState.
GoalState(node) == node.DesiredState

\* A goal test made against the state the caller handed in instead of the
\* working state.
GoalSatisfiedInitially(node, current) == Matches(initialState, GoalState(node))

\* executeNode: "goal already satisfied" test.
GoalSatisfied(node, current) == Matches(current, GoalState(node))

\* executeNode: the state changes recorded on success.
StateChanges(goalState, current) ==
    [k \in {x \in DOMAIN goalState : Get(current, x) # goalState[x]} |->
        goalState[k]]

\* executeAtomicNode: the action the loop runs at index i.
ActionAt(node, i) == node.ActionNames[i]

\* A loop that walks node.ChildIDs from the last child to the first.
ChildAtReversed(node, i) == node.ChildIDs[Len(node.ChildIDs) + 1 - i]

\* executeCompositeNode: the child the loop runs at index i.
ChildAt(node, i) == node.ChildIDs[i]

\* A loop that drops the action's error and goes on with the next action.
AfterActionIgnoringError(frame, actionName, err) == [frame EXCEPT !.idx = @ + 1]

\* executeAtomicNode: what the loop does with the error an action returned.
AfterAction(frame, actionName, err) ==
    IF err # NoError
    THEN [frame EXCEPT !.pc = "fail",
                       !.err = Wrap("action failed", actionName, err)]
    ELSE [frame EXCEPT !.idx = @ + 1]

\* A loop that drops the child's error and goes on with the next child.
AfterChildIgnoringError(frame, childID, err) == [frame EXCEPT !.idx = @ + 1]

\* executeCompositeNode: what the loop does with the error a child returned.
AfterChild(frame, childID, err) ==
    IF err # NoError
    THEN [frame EXCEPT !.pc = "fail",
                       !.err = Wrap("child node failed", childID, err)]
    ELSE [frame EXCEPT !.idx = @ + 1]

\* The stack once the innermost executeNode call has returned err to its
\* caller (executeCompositeNode, or Execute for the root).
Return(stk, err) ==
    IF Len(stk) = 1
    THEN <<>>
    ELSE Append(SubSeq(stk, 1, Len(stk) - 2),
                AfterChild(stk[Len(stk) - 1], stk[Len(stk)].node, err))

\* GraphExecutor.Execute up to its call of executeNode on the root: the
\* graph is loaded and the caller's state cloned.
ExecuteStart(ws) ==
    /\ phase \in {"idle", "done"}
    /\ runs < MaxRuns
    /\ runs' = runs + 1
    /\ phase' = "running"
    /\ initialState' = ws
    /\ currentState' = Clone(ws)
    /\ stack' = <<Frame(RootNodeID)>>
    /\ cancelled' = FALSE
    /\ execErr' = NoError
    /\ startGraph' = graph
    /\ visited' = <<>>
    /\ calls' = <<>>
    /\ UNCHANGED graph
    /\ UNCHANGED <<planVars, hierVars, restVars>>

\* executeNode: load the node context and mark the node running.
EnterNode ==
    /\ phase = "running"
    /\ Top.pc = "enter"
    /\ graph' = UpdateNodeStatus(graph, Top.node, "running", NoResult)
    /\ visited' = Append(visited, Top.node)
    /\ stack' = [stack EXCEPT ![Len(stack)].pc = "check",
                              ![Len(stack)].entry = currentState]
    /\ UNCHANGED <<initialState, currentState, phase, execErr, runs,
                   cancelled, startGraph, calls>>
    /\ UNCHANGED <<planVars, hierVars, restVars>>

\* executeNode: a node whose goal is already satisfied is marked skipped
\* and the call returns nil.
SkipNode ==
    /\ phase = "running"
    /\ Top.pc = "check"
    /\ GoalSatisfied(LoadNodeContext(graph, Top.node), currentState)
    /\ graph' = UpdateNodeStatus(graph, Top.node, "skipped",
                                 NodeResult(TRUE, NoError, EmptyWS))
    /\ stack' = Return(stack, NoError)
    /\ phase' = IF Len(stack) = 1 THEN "done" ELSE phase
    /\ execErr' = NoError
    /\ UNCHANGED <<initialState, currentState, runs, cancelled, startGraph,
                   visited, calls>>
    /\ UNCHANGED <<planVars, hierVars, restVars>>

\* executeNode: otherwise the node is executed by its type.
BeginNode ==
    /\ phase = "running"
    /\ Top.pc = "check"
    /\ ~GoalSatisfied(LoadNodeContext(graph, Top.node), currentState)
    /\ stack' = [stack EXCEPT ![Len(stack)].pc = "exec", ![Len(stack)].idx = 1]
    /\ UNCHANGED <<graph, initialState, currentState, phase, execErr, runs,
                   cancelled, startGraph, visited, calls>>
    /\ UNCHANGED <<planVars, hierVars, restVars>>

\* executeAtomicNode: one turn of the loop over node.ActionNames.
RunAction ==
    /\ phase = "running"
    /\ Top.pc = "exec"
    /\ LET node == LoadNodeContext(graph, Top.node) IN
       /\ node.IsAtomic
       /\ Top.idx <= Len(node.ActionNames)
       /\ LET name == ActionAt(node, Top.idx) IN
          IF name \notin DOMAIN Registry
          THEN /\ stack' = [stack EXCEPT ![Len(stack)].pc = "fail",
                               ![Len(stack)].err =
                                   Wrap("action not found", name, NoError)]
               /\ UNCHANGED <<currentState, calls>>
          ELSE \E failAt \in 0..Callbacks(name) :
                  LET r == ActionExecute(name, currentState, failAt, cancelled) IN
                  /\ currentState' = r.ws
                  /\ calls' = Append(calls,
                                 [node |-> Top.node, idx |-> Top.idx,
                                  name |-> name, seen |-> currentState,
                                  left |-> r.ws, err |-> r.err,
                                  invoked |-> r.invoked,
                                  ctxDone |-> cancelled])
                  /\ stack' = [stack EXCEPT ![Len(stack)] =
                                   AfterAction(Top, name, r.err)]
    /\ UNCHANGED <<graph, initialState, phase, execErr, runs, cancelled,
                   startGraph, visited>>
    /\ UNCHANGED <<planVars, hierVars, restVars>>

\* executeCompositeNode: one turn of the loop over node.ChildIDs, the
\* recursive call of executeNode.
RunChild ==
    /\ phase = "running"
    /\ Top.pc = "exec"
    /\ LET node == LoadNodeContext(graph, Top.node) IN
       /\ ~node.IsAtomic
       /\ Top.idx <= Len(node.ChildIDs)
       /\ stack' = Append(stack, Frame(ChildAt(node, Top.idx)))
    /\ UNCHANGED <<graph, initialState, currentState, phase, execErr, runs,
                   cancelled, startGraph, visited, calls>>
    /\ UNCHANGED <<planVars, hierVars, restVars>>

\* executeNode: the loop ended without error; the node is marked completed
\* with its state changes and the call returns nil.
CompleteNode ==
    /\ phase = "running"
    /\ Top.pc = "exec"
    /\ LET node == LoadNodeContext(graph, Top.node) IN
       /\ Top.idx > (IF node.IsAtomic THEN Len(node.ActionNames)
                                      ELSE Len(node.ChildIDs))
       /\ graph' = UpdateNodeStatus(graph, Top.node, "completed",
                       NodeResult(TRUE, NoError,
                                  StateChanges(GoalState(node), currentState)))
    /\ stack' = Return(stack, NoError)
    /\ phase' = IF Len(stack) = 1 THEN "done" ELSE phase
    /\ execErr' = NoError
    /\ UNCHANGED <<initialState, currentState, runs, cancelled, startGraph,
                   visited, calls>>
    /\ UNCHANGED <<planVars, hierVars, restVars>>

\* executeNode: the loop returned execErr; the node is marked failed with
\* the error's message and the call returns execErr.
FailNode ==
    /\ phase = "running"
    /\ Top.pc = "fail"
    /\ graph' = UpdateNodeStatus(graph, Top.node, "failed",
                                 NodeResult(FALSE, Top.err, EmptyWS))
    /\ stack' = Return(stack, Top.err)
    /\ phase' = IF Len(stack) = 1 THEN "done" ELSE phase
    /\ execErr' = IF Len(stack) = 1 THEN Top.err ELSE execErr
    /\ UNCHANGED <<initialState, currentState, runs, cancelled, startGraph,
                   visited, calls>>
    /\ UNCHANGED <<planVars, hierVars, restVars>>

\* The caller cancels the context of the running Execute call.
Cancel ==
    /\ phase = "running"
    /\ ~cancelled
    /\ cancelled' = TRUE
    /\ UNCHANGED <<graph, initialState, currentState, stack, phase, execErr,
                   runs, startGraph, visited, calls>>
    /\ UNCHANGED <<planVars, hierVars, restVars>>

Graphs ==
    {Graph1(l) : l \in AtomicPlans}
    \cup {Graph3(g, l[1], l[2]) :
             g \in CompositeGoals, l \in AtomicPlans \X AtomicPlans}
    \cup {Graph5(g[1], g[2], l[1], l[2], l[3]) :
             g \in CompositeGoals \X CompositeGoals,
             l \in DeepPlans \X DeepPlans \X DeepPlans}

\* FindPlan up to its loop: an already satisfied goal gives the empty plan,
\* otherwise the start node is pushed.
FindPlanStart ==
    /\ pPhase = "idle"
    /\ IF IsSatisfied(pGoal, pCurrent)
       THEN /\ plan' = Plan(<<>>, 0)
            /\ pPhase' = "done"
            /\ UNCHANGED openSet
       ELSE /\ openSet' = HeapPush(<<>>, SearchNode(Clone(pCurrent), <<>>, 0, pGoal))
            /\ pPhase' = "search"
            /\ UNCHANGED plan
    /\ closed' = {}
    /\ iterations' = 0
    /\ UNCHANGED <<pActions, pCurrent, pGoal>>
    /\ UNCHANGED <<execVars, hierVars, restVars>>

\* FindPlan: one iteration of the loop: pop the node of lowest f-cost, drop
\* it if its state was visited, return its actions if it satisfies the
\* goal, otherwise expand it.
FindPlanIterate ==
    /\ pPhase = "search"
    /\ LoopGoesOn(openSet, iterations)
    /\ iterations' = iterations + 1
    /\ LET popped == HeapPop(openSet)
           currentNode == popped.node
           stateKey == String(currentNode.state)
       IN
       IF stateKey \in closed
       THEN /\ openSet' = popped.rest
            /\ UNCHANGED <<closed, pPhase, plan>>
       ELSE /\ closed' = closed \cup {stateKey}
            /\ IF IsSatisfied(pGoal, currentNode.state)
               THEN /\ plan' = Plan(currentNode.actions, currentNode.gCost)
                    /\ pPhase' = "done"
                    /\ openSet' = popped.rest
               ELSE /\ openSet' = Expand(popped.rest, currentNode, pActions, 1,
                                         closed', pGoal)
                    /\ UNCHANGED <<pPhase, plan>>
    /\ UNCHANGED <<pActions, pCurrent, pGoal>>
    /\ UNCHANGED <<execVars, hierVars, restVars>>

\* FindPlan: the loop ended with the open set empty or the iteration cap
\* reached; nil is returned.
FindPlanGiveUp ==
    /\ pPhase = "search"
    /\ ~LoopGoesOn(openSet, iterations)
    /\ plan' = NoPlan
    /\ pPhase' = "done"
    /\ UNCHANGED <<pActions, pCurrent, pGoal, openSet, closed, iterations>>
    /\ UNCHANGED <<execVars, hierVars, restVars>>

\* The action sets handed to NewPlanner, with their costs.  The third set
\* has two actions writing the same key, one an int and one a float64.
PlannerActions(shape, cost) ==
    IF shape = 3
    THEN << [name |-> "N1", pre |-> EmptyWS, eff |-> WS1("n", "int:1"),
             cost |-> cost[1]],
            [name |-> "N2", pre |-> EmptyWS, eff |-> WS1("n", "float:1"),
             cost |-> cost[2]],
            [name |-> "M", pre |-> WS1("n", "float:1"), eff |-> WS1("g", "true"),
             cost |-> cost[3]] >>
    ELSE IF shape = 1
    THEN << [name |-> "A", pre |-> EmptyWS,
             eff |-> WS2("g", "true", "h", "true"), cost |-> cost[1]],
            [name |-> "B", pre |-> EmptyWS, eff |-> WS1("x", "true"),
             cost |-> cost[2]],
            [name |-> "C", pre |-> WS1("x", "true"),
             eff |-> WS2("g", "true", "h", "true"), cost |-> cost[3]] >>
    ELSE << [name |-> "A1", pre |-> EmptyWS, eff |-> WS1("g", "true"),
             cost |-> cost[1]],
            [name |-> "A2", pre |-> WS1("g", "true"), eff |-> WS1("h", "true"),
             cost |-> cost[2]],
            [name |-> "Z", pre |-> EmptyWS, eff |-> WS1("x", "true"),
             cost |-> cost[3]] >>

\* Number of independent actions of the wide action set.
MaxWide == 8

\* An action set whose state space is larger than the iteration cap: the
\* actions can be applied in any order and each sets a key of its own.
WideActions(cost) ==
    [i \in 1..MaxWide |->
        [name |-> "K" \o ToString(i), pre |-> EmptyWS,
         eff |-> WS1("k" \o ToString(i), "true"), cost |-> cost]]

\* An action set with a cycle: Undo and Redo take x back and forth.
CyclicActions(cost) ==
    << [name |-> "Do", pre |-> EmptyWS, eff |-> WS1("x", "true"), cost |-> cost],
       [name |-> "Undo", pre |-> WS1("x", "true"), eff |-> WS1("x", "false"),
        cost |-> cost],
       [name |-> "Redo", pre |-> WS1("x", "false"), eff |-> WS1("x", "true"),
        cost |-> cost] >>

PlannerGoals ==
    {WS1("g", "true"), WS2("g", "true", "h", "true"),
     WS2("h", "true", "x", "true"), WS1("z", "true"), WS1("n", "float:1")}

PlannerStates == {EmptyWS, WS1("x", "true"), WS1("g", "true")}

\* ------------------------------------------- hierarchical planner: inputs
\* Largest maxDepth handed to NewHierarchicalPlanner.
MaxDepthTried == 3

\* A Goal: name, description and desiredState.
Goal(name, description, desired) ==
    [name |-> name, description |-> description, desired |-> desired]

\* The goals the refiners and callers build with NewGoal.
GoalNamed(name) ==
    CASE name = "Root" -> Goal(name, "root", WS2("b", "true", "c", "true"))
      [] name = "Mid"  -> Goal(name, "mid", WS2("a", "true", "b", "true"))
      [] name = "Deep" -> Goal(name, "deep", WS2("a", "true", "b", "true"))
      [] name = "GA"   -> Goal(name, "set a", WS1("a", "true"))
      [] name = "GB"   -> Goal(name, "set b", WS1("b", "true"))
      [] name = "GC"   -> Goal(name, "set c", WS1("c", "true"))
      [] name = "GZ"   -> Goal(name, "set z", WS1("z", "true"))
      [] name = "Pair [atomic]" ->
             Goal(name, "set a and b", WS2("a", "true", "b", "true"))
      [] name = "Top"  -> Goal(name, "top", WS2("a", "true", "d", "true"))
      [] name = "Sub"  -> Goal(name, "sub", WS1("d", "true"))
      [] name = "GD"   -> Goal(name, "set d", WS1("d", "true"))
      [] name = "GAD"  -> Goal(name, "set a and d", WS2("a", "true", "d", "true"))

\* The goals callers hand to PlanHierarchical.
GoalNames ==
    {"Root", "Mid", "Deep", "GA", "GB", "GC", "GZ", "Pair [atomic]", "Top"}

\* The states callers hand to PlanHierarchical.
HierStates == InitialStates \cup {WS1("d", "false")}

\* The actions of the planner the hierarchical planner is built on.
HierActions ==
    << [name |-> "SetA", pre |-> EmptyWS, eff |-> WS1("a", "true"), cost |-> 1],
       [name |-> "SetB", pre |-> WS1("a", "true"), eff |-> WS1("b", "true"),
        cost |-> 1],
       [name |-> "SetC", pre |-> WS1("b", "true"), eff |-> WS1("c", "true"),
        cost |-> 1],
       [name |-> "SetD", pre |-> WS1("d", "false"), eff |-> WS1("d", "true"),
        cost |-> 1] >>

\* The refinements registered with AddRefinement (goal name -> subgoal
\* names): nested, flat, cyclic, a chain three levels deep, a goal
\* registered with no subgoals, and a composite subgoal followed by a
\* sibling that needs what the subgoal uses up.
Refinements ==
    { ("Root" :> <<"Mid", "GC">>) @@ ("Mid" :> <<"GA", "GB">>),
      ("Root" :> <<"GA", "GB", "GC">>),
      ("Root" :> <<"Mid">>) @@ ("Mid" :> <<"Root">>),
      ("Root" :> <<"Mid">>) @@ ("Mid" :> <<"Deep">>) @@ ("Deep" :> <<"GA", "GB">>),
      ("Root" :> <<>>),
      ("Top" :> <<"Sub", "GAD">>) @@ ("Sub" :> <<"GD">>) }

\* One entry of the "subgoals" array of a generator response: the fields
\* present in the JSON object and their values.
SubgoalJSON(fields, name, description, desired) ==
    [fields |-> fields, name |-> name, description |-> description,
     desired |-> desired]

AllFields == {"name", "description", "desired_state"}

\* A generator response: whether it is well-formed JSON, the top-level
\* fields present, and the subgoals array.
Response(wellFormed, fields, subgoals) ==
    [wellFormed |-> wellFormed, fields |-> fields, subgoals |-> subgoals]

Responses ==
    { Response(FALSE, {}, <<>>),
      Response(TRUE, {"rationale"}, <<>>),
      Response(TRUE, {"rationale", "subgoals"}, <<>>),
      Response(TRUE, {"rationale", "subgoals"},
               << SubgoalJSON(AllFields, "GA", "set a", WS1("a", "true")),
                  SubgoalJSON(AllFields, "GB", "set b", WS1("b", "true")),
                  SubgoalJSON(AllFields, "GC", "set c", WS1("c", "true")) >>),
      Response(TRUE, {"rationale", "subgoals"},
               << SubgoalJSON(AllFields, "GA", "set a", WS1("a", "true")),
                  SubgoalJSON({"name", "description"}, "GB", "set b", EmptyWS) >>),
      Response(TRUE, {"rationale", "subgoals"},
               << SubgoalJSON({"description", "desired_state"}, "", "set a",
                              WS1("a", "true")) >>),
      Response(TRUE, {"rationale", "subgoals"},
               << SubgoalJSON({"name", "desired_state"}, "GA", "",
                              WS1("a", "true")) >>),
      Response(TRUE, {"rationale", "subgoals"},
               << SubgoalJSON(AllFields, "Mid", "mid",
                              WS2("a", "true", "b", "true")) >>) }

\* The refiners: MockGoalRefiner (refinement_test.go), the README's
\* CustomRefiner and LLMGoalRefiner.
Refiner(kind, refinements, response) ==
    [kind |-> kind, refinements |-> refinements, response |-> response]

Refiners ==
    {Refiner(k, r, Response(FALSE, {}, <<>>)) :
        k \in {"mock", "custom"}, r \in Refinements}
    \cup {Refiner("llm", <<>>, resp) : resp \in Responses}

\* The action of the planner's set that has the given name.
ActionNamed(acts, name) ==
    acts[CHOOSE i \in 1..Len(acts) : acts[i].name = name]

\* ------------------------------------------------------------- refiners
\* strings.Contains(strings.ToLower(name), "[atomic]")
HasAtomicMarker(name) == name \in {"Pair [atomic]"}

\* GoalRefiner.IsAtomic
RefinerIsAtomic(refiner, goal, current) ==
    CASE refiner.kind = "mock" -> goal.name \notin DOMAIN refiner.refinements
      [] refiner.kind = "custom" -> Cardinality(DOMAIN goal.desired) = 1
      [] refiner.kind = "llm" ->
             \/ Cardinality(DOMAIN goal.desired) = 1
             \/ HasAtomicMarker(goal.name)
             \/ Distance(current, goal.desired) <= 1

\* json.Unmarshal of one subgoal into SubgoalSpec followed by NewGoal: a
\* field absent from the JSON object is left at its zero value.
SubgoalFromJSON(spec) ==
    Goal(IF "name" \in spec.fields THEN spec.name ELSE "",
         IF "description" \in spec.fields THEN spec.description ELSE "",
         IF "desired_state" \in spec.fields
         THEN JSONRoundTrip(spec.desired) ELSE EmptyWS)

\* LLMGoalRefiner.Refine on the generator's response.
LLMRefine(response) ==
    IF ~response.wellFormed
    THEN [err |-> Wrap("failed to parse LLM response", "", NoError),
          subgoals |-> <<>>]
    ELSE [err |-> NoError,
          subgoals |-> IF "subgoals" \in response.fields
                       THEN [i \in 1..Len(response.subgoals) |->
                                SubgoalFromJSON(response.subgoals[i])]
                       ELSE <<>>]

\* GoalRefiner.Refine
Refine(refiner, goal, current) ==
    IF refiner.kind = "llm"
    THEN LLMRefine(refiner.response)
    ELSE [err |-> NoError,
          subgoals |-> IF goal.name \in DOMAIN refiner.refinements
                       THEN [i \in 1..Len(refiner.refinements[goal.name]) |->
                                GoalNamed(refiner.refinements[goal.name][i])]
                       ELSE <<>>]

\* -------------------------------------------------- hierarchical planner
\* HierarchicalPlan
HierarchicalPlan(goal, subplans, actions, depth) ==
    [Goal |-> goal, Subplans |-> subplans, Actions |-> actions, Depth |-> depth]

\* The result of PlanHierarchical before it has returned.
NoHierResult ==
    [err |-> NoError,
     plan |-> HierarchicalPlan(Goal("", "", EmptyWS), <<>>, <<>>, 0)]

\* HierarchicalPlan.IsAtomic
IsAtomic(hp) == Len(hp.Subplans) = 0

\* A numbering that gives every node the same id.
NodeIDOfRoot(nodeCounter) == "node_1"

\* BuildGraphFromPlan.buildNode: fmt.Sprintf("node_%d", nodeCounter)
NodeID(nodeCounter) == "node_" \o ToString(nodeCounter)

\* BuildGraphFromPlan.buildNode on hp under parentID, with the nodes made
\* and the node counter as they stand: the node gets the next number, its
\* subplans are built in order, then the node is stored.  The result is
\* the nodes, the counter and the node's id.
RECURSIVE BuildNode(_, _, _, _)
RECURSIVE BuildChildren(_, _, _, _, _)
BuildNode(nodes, nodeCounter, hp, parentID) ==
    LET nodeID == NodeID(nodeCounter + 1)
        actionNames == IF IsAtomic(hp) THEN hp.Actions ELSE <<>>
        kids == IF ~IsAtomic(hp)
                THEN BuildChildren(nodes, nodeCounter + 1, hp.Subplans, 1, nodeID)
                ELSE [nodes |-> nodes, nodeCounter |-> nodeCounter + 1,
                      childIDs |-> <<>>]
        node == GraphNode(nodeID, hp.Goal.desired, parentID, kids.childIDs,
                          actionNames)
                   @@ [GoalName |-> hp.Goal.name, Depth |-> hp.Depth]
    IN [nodes |-> [id \in DOMAIN kids.nodes \cup {nodeID} |->
                      IF id = nodeID THEN node ELSE kids.nodes[id]],
        nodeCounter |-> kids.nodeCounter, nodeID |-> nodeID]

\* BuildGraphFromPlan.buildNode: the loop over hp.Subplans from index i on.
BuildChildren(nodes, nodeCounter, subplans, i, parentID) ==
    IF i > Len(subplans)
    THEN [nodes |-> nodes, nodeCounter |-> nodeCounter, childIDs |-> <<>>]
    ELSE LET child == BuildNode(nodes, nodeCounter, subplans[i], parentID)
             rest == BuildChildren(child.nodes, child.nodeCounter, subplans,
                                   i + 1, parentID)
         IN [rest EXCEPT !.childIDs = <<child.nodeID>> \o @]

\* calculateMaxDepth
CalculateMaxDepth(nodes) ==
    CHOOSE d \in {0} \cup {nodes[id].Depth : id \in DOMAIN nodes} :
        \A id \in DOMAIN nodes : nodes[id].Depth <= d

\* BuildGraphFromPlan
BuildGraphFromPlan(hp) ==
    LET root == BuildNode([id \in {} |-> 0], 0, hp, "") IN
    [RootNodeID |-> root.nodeID, Nodes |-> root.nodes,
     Metadata |-> [TotalNodes |-> root.nodeCounter,
                   MaxDepth |-> CalculateMaxDepth(root.nodes)]]

\* No graph has been built.
NoGraph ==
    [RootNodeID |-> "", Nodes |-> [id \in {} |-> 0],
     Metadata |-> [TotalNodes |-> 0, MaxDepth |-> 0]]

\* One planRecursive call in progress: its arguments, where it stands
\* ("enter": at the top; "findplan": waiting for FindPlan; "loop": in the
\* loop over the subgoals at index idx), and its locals subgoals,
\* workingState and subplans.
HFrame(goal, current, depth) ==
    [goal |-> goal, current |-> current, depth |-> depth, pc |-> "enter",
     subgoals |-> <<>>, idx |-> 0, working |-> current, subplans |-> <<>>]

HTop == hStack[Len(hStack)]

\* A depth test that lets one more level through.
DepthExceededOffByOne(depth, maxDepth) == depth > maxDepth + 1

\* planRecursive: the depth test.
DepthExceeded(depth, maxDepth) == depth > maxDepth

\* planRecursive: the working state after the effects of the subplan's
\* own Actions are applied in order.
RECURSIVE ApplyEffects(_, _, _)
ApplyEffects(ws, acts, names) ==
    IF names = <<>>
    THEN ws
    ELSE ApplyEffects(Apply(ws, ActionNamed(acts, Head(names)).eff), acts,
                      Tail(names))

\* SimpleAction.Execute of a planner action; fail says whether the
\* execution callback returns an error.
PlannedExecute(action, current, fail) ==
    IF ~Matches(current, action.pre)
    THEN [err |-> Wrap("preconditions not met", action.name, NoError),
          ws |-> current, invoked |-> <<>>]
    ELSE IF fail
         THEN [err |-> Wrap("execution failed", action.name, NoError),
               ws |-> current, invoked |-> <<action.name>>]
         ELSE [err |-> NoError, ws |-> Apply(current, action.eff),
               invoked |-> <<action.name>>]

\* HierarchicalPlan.Execute: an atomic plan runs its actions in order from
\* index i on, a composite plan its subplans; the first error ends it.
\* failing are the actions whose callback returns an error; invoked are
\* the callbacks run so far.
RECURSIVE ExecuteActions(_, _, _, _, _, _)
RECURSIVE ExecuteSubplans(_, _, _, _, _, _)
ExecuteActions(acts, names, i, current, failing, invoked) ==
    IF i > Len(names)
    THEN [err |-> NoError, ws |-> current, invoked |-> invoked]
    ELSE LET r == PlannedExecute(ActionNamed(acts, names[i]), current,
                                 names[i] \in failing)
         IN IF r.err # NoError
            THEN [err |-> Wrap("action failed", names[i], r.err), ws |-> r.ws,
                  invoked |-> invoked \o r.invoked]
            ELSE ExecuteActions(acts, names, i + 1, r.ws, failing,
                                invoked \o r.invoked)

HierarchicalPlanExecute(acts, hp, current, failing, invoked) ==
    IF IsAtomic(hp)
    THEN ExecuteActions(acts, hp.Actions, 1, current, failing, invoked)
    ELSE ExecuteSubplans(acts, hp.Subplans, 1, current, failing, invoked)

ExecuteSubplans(acts, subplans, i, current, failing, invoked) ==
    IF i > Len(subplans)
    THEN [err |-> NoError, ws |-> current, invoked |-> invoked]
    ELSE LET r == HierarchicalPlanExecute(acts, subplans[i], current, failing,
                                          invoked)
         IN IF r.err # NoError
            THEN [r EXCEPT !.err = Wrap("subplan failed",
                                        subplans[i].Goal.name, @)]
            ELSE ExecuteSubplans(acts, subplans, i + 1, r.ws, failing,
                                 r.invoked)

\* The returned plan has not been executed.
NotExecuted ==
    [done |-> FALSE, failing |-> {}, err |-> NoError, ws |-> EmptyWS,
     invoked |-> <<>>]

\* The error PlanHierarchical returns when the innermost call fails with
\* err: every caller wraps it with the name of the subgoal it was planning.
RECURSIVE Unwind(_, _)
Unwind(stk, err) ==
    IF Len(stk) = 1
    THEN err
    ELSE Unwind(SubSeq(stk, 1, Len(stk) - 1),
                Wrap("failed to plan subgoal", stk[Len(stk)].goal.name, err))

\* The innermost planRecursive call returns (nil, err).
HFail(err) ==
    /\ hStack' = <<>>
    /\ hPhase' = "done"
    /\ hResult' = [NoHierResult EXCEPT !.err = Unwind(hStack, err)]

\* The innermost planRecursive call returns (plan, nil): the caller appends
\* it to subplans and applies the effects of its Actions to workingState.
HSucceed(subplan) ==
    IF Len(hStack) = 1
    THEN /\ hStack' = <<>>
         /\ hPhase' = "done"
         /\ hResult' = [err |-> NoError, plan |-> subplan]
    ELSE /\ hStack' = Append(SubSeq(hStack, 1, Len(hStack) - 2),
                 [hStack[Len(hStack) - 1] EXCEPT
                     !.subplans = Append(@, subplan),
                     !.working = ApplyEffects(@, pActions, subplan.Actions),
                     !.idx = @ + 1])
         /\ UNCHANGED <<hPhase, hResult>>

HLogEntry(op, frame) ==
    [op |-> op, goal |-> frame.goal, depth |-> frame.depth,
     current |-> frame.current]

\* NewHierarchicalPlanner(NewPlanner(HierActions), refiner, maxDepth) and
\* PlanHierarchical(current, goal) up to the call of planRecursive at
\* depth 0.
PlanHierarchical(refiner, maxDepth, current, goal) ==
    /\ hPhase = "idle"
    /\ hRefiner' = refiner
    /\ hMaxDepth' = maxDepth
    /\ hCurrent' = current
    /\ hGoal' = goal
    /\ pActions' = HierActions
    /\ hPhase' = "planning"
    /\ hStack' = <<HFrame(goal, current, 0)>>
    /\ UNCHANGED <<hResult, hLog>>
    /\ UNCHANGED <<pCurrent, pGoal, openSet, closed, iterations, pPhase, plan>>
    /\ UNCHANGED <<execVars, restVars>>

\* planRecursive: depth > maxDepth.
PlanDepthExceeded ==
    /\ hPhase = "planning"
    /\ HTop.pc = "enter"
    /\ DepthExceeded(HTop.depth, hMaxDepth)
    /\ HFail(Wrap("maximum planning depth exceeded", ToString(hMaxDepth),
                  NoError))
    /\ UNCHANGED <<hRefiner, hMaxDepth, hCurrent, hGoal, hLog>>
    /\ UNCHANGED <<execVars, planVars, restVars>>

\* planRecursive: the goal is already satisfied.
PlanSatisfied ==
    /\ hPhase = "planning"
    /\ HTop.pc = "enter"
    /\ ~DepthExceeded(HTop.depth, hMaxDepth)
    /\ IsSatisfied(HTop.goal.desired, HTop.current)
    /\ HSucceed(HierarchicalPlan(HTop.goal, <<>>, <<>>, HTop.depth))
    /\ hLog' = Append(hLog, HLogEntry("plan", HTop))
    /\ UNCHANGED <<hRefiner, hMaxDepth, hCurrent, hGoal>>
    /\ UNCHANGED <<execVars, planVars, restVars>>

\* planRecursive: the goal is atomic; hp.planner.FindPlan(current, goal)
\* is called.
PlanAtomic ==
    /\ hPhase = "planning"
    /\ HTop.pc = "enter"
    /\ ~DepthExceeded(HTop.depth, hMaxDepth)
    /\ ~IsSatisfied(HTop.goal.desired, HTop.current)
    /\ RefinerIsAtomic(hRefiner, HTop.goal, HTop.current)
    /\ pCurrent' = HTop.current
    /\ pGoal' = HTop.goal.desired
    /\ pPhase' = "idle"
    /\ hStack' = [hStack EXCEPT ![Len(hStack)].pc = "findplan"]
    /\ hLog' = Append(hLog, HLogEntry("plan", HTop))
    /\ UNCHANGED <<hRefiner, hMaxDepth, hCurrent, hGoal, hPhase, hResult>>
    /\ UNCHANGED <<pActions, openSet, closed, iterations, plan>>
    /\ UNCHANGED <<execVars, restVars>>

\* planRecursive: FindPlan has returned; nil is an error, otherwise the
\* plan's actions make the atomic plan.
PlanAtomicReturn ==
    /\ hPhase = "planning"
    /\ HTop.pc = "findplan"
    /\ pPhase = "done"
    /\ IF ~plan.found
       THEN HFail(Wrap("no action plan found for atomic goal", HTop.goal.name,
                       NoError))
       ELSE HSucceed(HierarchicalPlan(HTop.goal, <<>>, plan.actions,
                                      HTop.depth))
    /\ UNCHANGED <<hRefiner, hMaxDepth, hCurrent, hGoal, hLog>>
    /\ UNCHANGED <<execVars, planVars, restVars>>

\* planRecursive: the goal is refined into subgoals.
PlanRefine ==
    /\ hPhase = "planning"
    /\ HTop.pc = "enter"
    /\ ~DepthExceeded(HTop.depth, hMaxDepth)
    /\ ~IsSatisfied(HTop.goal.desired, HTop.current)
    /\ ~RefinerIsAtomic(hRefiner, HTop.goal, HTop.current)
    /\ LET r == Refine(hRefiner, HTop.goal, HTop.current) IN
       IF r.err # NoError
       THEN HFail(Wrap("failed to refine goal", HTop.goal.name, r.err))
       ELSE IF Len(r.subgoals) = 0
            THEN HFail(Wrap("goal refinement produced no subgoals",
                            HTop.goal.name, NoError))
            ELSE /\ hStack' = [hStack EXCEPT
                                  ![Len(hStack)].pc = "loop",
                                  ![Len(hStack)].subgoals = r.subgoals,
                                  ![Len(hStack)].idx = 1,
                                  ![Len(hStack)].working = Clone(HTop.current)]
                 /\ UNCHANGED <<hPhase, hResult>>
    /\ hLog' = Append(hLog, HLogEntry("refine", HTop))
    /\ UNCHANGED <<hRefiner, hMaxDepth, hCurrent, hGoal>>
    /\ UNCHANGED <<execVars, planVars, restVars>>

\* planRecursive: one turn of the loop over the subgoals, the recursive
\* call on workingState at depth + 1.
PlanSubgoal ==
    /\ hPhase = "planning"
    /\ HTop.pc = "loop"
    /\ HTop.idx <= Len(HTop.subgoals)
    /\ hStack' = Append(hStack, HFrame(HTop.subgoals[HTop.idx], HTop.working,
                                       HTop.depth + 1))
    /\ UNCHANGED <<hRefiner, hMaxDepth, hCurrent, hGoal, hPhase, hResult, hLog>>
    /\ UNCHANGED <<execVars, planVars, restVars>>

\* planRecursive: every subgoal is planned; the composite plan is returned.
PlanComposite ==
    /\ hPhase = "planning"
    /\ HTop.pc = "loop"
    /\ HTop.idx > Len(HTop.subgoals)
    /\ HSucceed(HierarchicalPlan(HTop.goal, HTop.subplans, <<>>, HTop.depth))
    /\ hLog' = Append(hLog, HLogEntry("plan", HTop))
    /\ UNCHANGED <<hRefiner, hMaxDepth, hCurrent, hGoal>>
    /\ UNCHANGED <<execVars, planVars, restVars>>

\* The caller hands the plan PlanHierarchical returned to
\* BuildGraphFromPlan.
BuildGraph ==
    /\ hPhase = "done"
    /\ hResult.err = NoError
    /\ built = NoGraph
    /\ built' = BuildGraphFromPlan(hResult.plan)
    /\ UNCHANGED executed
    /\ UNCHANGED <<execVars, planVars, hierVars, unitVars, diskVars, otherVars>>

\* The caller executes the plan PlanHierarchical returned on the state it
\* planned from: plan.Execute(ctx, current).
ExecutePlan(failing) ==
    /\ hPhase = "done"
    /\ hResult.err = NoError
    /\ ~executed.done
    /\ executed' = HierarchicalPlanExecute(pActions, hResult.plan,
                                           Clone(hCurrent), failing, <<>>)
                       @@ [done |-> TRUE, failing |-> failing]
    /\ UNCHANGED built
    /\ UNCHANGED <<execVars, planVars, hierVars, unitVars, diskVars, otherVars>>

\* The hierarchical planner before any PlanHierarchical call.
HierIdle ==
    /\ hStack = <<>>
    /\ hPhase = "idle"
    /\ hResult = NoHierResult
    /\ hLog = <<>>

\* No hierarchical planner is in use.
HierUnused ==
    /\ hRefiner = Refiner("mock", <<>>, Response(FALSE, {}, <<>>))
    /\ hMaxDepth = 0
    /\ hCurrent = EmptyWS
    /\ hGoal = Goal("", "", EmptyWS)
    /\ HierIdle

\* ------------------------------------------------ a caller's world states
\* Calls a caller makes on its own world states.
MaxOps == 2

\* The record of a call: the method, what it was called with, the caller's
\* variable it was called on ("s" or "c"), the map's content before and
\* after, what the call returned, the callbacks it invoked, and the
\* action's declared Preconditions() and Effects().
Call(op, subject, on, before, after, r, base) ==
    [op |-> op, subject |-> subject, on |-> on, before |-> before,
     after |-> after, err |-> r.err, invoked |-> r.invoked,
     pre |-> base.pre, eff |-> base.eff]

NoCall ==
    Call("none", <<>>, "s", EmptyWS, EmptyWS,
         [err |-> NoError, invoked |-> <<>>], [pre |-> EmptyWS, eff |-> EmptyWS])

\* The map a caller's variable refers to.
Ref(on) == IF on = "s" THEN orig ELSE copy

\* The caller's variables that hold a map.
Held == IF copy = 0 THEN {"s"} ELSE {"s", "c"}

\* A Clone that hands back the map it was called on.
SameMap(h, r) == [heap |-> h, ref |-> r]

\* WorldState.Clone: a new map is made and every key copied into it.
CloneMap(h, r) == [heap |-> Append(h, Clone(h[r])), ref |-> Len(h) + 1]

\* c = s.Clone()
CallClone ==
    /\ ops < MaxOps
    /\ copy = 0
    /\ LET made == CloneMap(heap, orig) IN
       /\ heap' = made.heap
       /\ copy' = made.ref
       /\ last' = Call("Clone", <<>>, "s", heap[orig], made.heap[orig],
                       [err |-> NoError, invoked |-> <<>>],
                       [pre |-> EmptyWS, eff |-> EmptyWS])
    /\ ops' = ops + 1
    /\ UNCHANGED <<orig, running>>
    /\ UNCHANGED <<execVars, planVars, hierVars, buildVars, diskVars, otherVars>>

\* The effect of a call on the map of one of the caller's variables; left
\* are the goroutines the call started and did not wait for.
CalledLeaving(on, call, after, left) ==
    /\ ops < MaxOps
    /\ on \in Held
    /\ heap' = [heap EXCEPT ![Ref(on)] = after]
    /\ last' = call
    /\ ops' = ops + 1
    /\ running' = running \cup left
    /\ UNCHANGED <<orig, copy>>
    /\ UNCHANGED <<execVars, planVars, hierVars, buildVars, diskVars, otherVars>>

\* The effect of a call that leaves no goroutine behind.
Called(on, call, after) == CalledLeaving(on, call, after, {})

\* WorldState.Set on s or c.
CallSet(on, key, value) ==
    LET after == Apply(heap[Ref(on)], WS1(key, value)) IN
    Called(on, Call("Set", <<key, value>>, on, heap[Ref(on)], after,
                    [err |-> NoError, invoked |-> <<>>],
                    [pre |-> EmptyWS, eff |-> EmptyWS]), after)

\* WorldState.Apply on s or c.
CallApply(on, changes) ==
    LET after == Apply(heap[Ref(on)], changes) IN
    Called(on, Call("Apply", changes, on, heap[Ref(on)], after,
                    [err |-> NoError, invoked |-> <<>>],
                    [pre |-> EmptyWS, eff |-> EmptyWS]), after)

\* Execute of a registered SimpleAction or CompositeAction on s or c.
CallExecute(on, name, failAt, ctxDone) ==
    LET r == ActionExecute(name, heap[Ref(on)], failAt, ctxDone) IN
    Called(on, Call("Execute", [name |-> name, failAt |-> failAt,
                                ctxDone |-> ctxDone],
                    on, heap[Ref(on)], r.ws, r, Registry[name]), r.ws)

\* Execute of NewRetryAction(wrapped, maxRetries, backoff) on s or c.
CallRetryExecute(on, wrapped, maxRetries, failAts) ==
    LET r == RetryExecute(wrapped, maxRetries, heap[Ref(on)], failAts) IN
    Called(on, Call("Retry", <<wrapped>>, on, heap[Ref(on)], r.ws, r,
                    NewRetryAction(wrapped)), r.ws)

\* Execute of NewFallbackAction(primary, fallback) on s or c.
CallFallbackExecute(on, primary, fallback, failPrimary, failFallback) ==
    LET r == FallbackExecute(primary, fallback, heap[Ref(on)], failPrimary,
                             failFallback) IN
    Called(on, Call("Fallback", <<primary, fallback>>, on, heap[Ref(on)],
                    r.ws, r, NewFallbackAction(primary, fallback)), r.ws)

\* Execute of NewTimeoutAction(wrapped, timeout) on s or c.
CallTimeoutExecute(on, wrapped, failAt, timedOut, finished) ==
    LET r == TimeoutExecute(wrapped, heap[Ref(on)], failAt, timedOut, finished)
    IN
    CalledLeaving(on, Call("Timeout", <<wrapped>>, on, heap[Ref(on)], r.ws, r,
                           NewTimeoutAction(wrapped)),
                  r.ws, Orphans(wrapped, heap[Ref(on)], Ref(on), timedOut, finished))

\* The goroutine of a TimeoutAction that timed out gets on: the callback
\* it was in returns (fail: with an error), and SimpleAction.Execute
\* applies the effects to the map Execute was called on.
WrappedActionEnds(fail) ==
    \E g \in running :
        /\ running' = running \ {g}
        /\ heap' = [heap EXCEPT ![g.ref] =
                        IF fail THEN @ ELSE Apply(@, Registry[g.action].eff)]
        /\ UNCHANGED <<orig, copy, last, ops>>
        /\ UNCHANGED <<execVars, planVars, hierVars, buildVars, diskVars, otherVars>>

\* FindPlan: the search node whose state is the map at ref.
NodeOf(mem, ref, actions, gCost, goal) ==
    [ref |-> ref, actions |-> actions, gCost |-> gCost,
     hCost |-> Distance(mem[ref], goal)]

\* FindPlan on maps: the expansion loop over p.actions from index i on;
\* newState is a Clone of the node's map and the effects are applied to it.
RECURSIVE ExpandIn(_, _, _, _, _, _, _)
ExpandIn(mem, open, node, acts, i, seen, goal) ==
    IF i > Len(acts)
    THEN [mem |-> mem, open |-> open]
    ELSE IF ~Matches(mem[node.ref], acts[i].pre)
         THEN ExpandIn(mem, open, node, acts, i + 1, seen, goal)
         ELSE LET made == CloneMap(mem, node.ref)
                  newState == made.ref
                  written == [made.heap EXCEPT
                                 ![newState] = Apply(@, acts[i].eff)]
              IN
              IF String(written[newState]) \in seen
              THEN ExpandIn(written, open, node, acts, i + 1, seen, goal)
              ELSE ExpandIn(written,
                            HeapPush(open,
                                     NodeOf(written, newState,
                                            Append(node.actions, acts[i].name),
                                            node.gCost + acts[i].cost, goal)),
                            node, acts, i + 1, seen, goal)

\* FindPlan on maps: the loop.
RECURSIVE SearchLoop(_, _, _, _, _, _)
SearchLoop(mem, open, seen, iters, acts, goal) ==
    IF ~LoopGoesOn(open, iters)
    THEN [mem |-> mem, plan |-> NoPlan]
    ELSE LET popped == HeapPop(open)
             currentNode == popped.node
             stateKey == String(mem[currentNode.ref])
         IN
         IF stateKey \in seen
         THEN SearchLoop(mem, popped.rest, seen, iters + 1, acts, goal)
         ELSE IF IsSatisfied(goal, mem[currentNode.ref])
              THEN [mem |-> mem,
                    plan |-> Plan(currentNode.actions, currentNode.gCost)]
              ELSE LET ex == ExpandIn(mem, popped.rest, currentNode, acts, 1,
                                      seen \cup {stateKey}, goal)
                   IN SearchLoop(ex.mem, ex.open, seen \cup {stateKey},
                                 iters + 1, acts, goal)

\* Planner.FindPlan(current, goal) with current the map at cur: the maps
\* after the call and the plan returned.
FindPlanIn(mem, cur, acts, goal) ==
    IF IsSatisfied(goal, mem[cur])
    THEN [mem |-> mem, plan |-> Plan(<<>>, 0)]
    ELSE LET made == CloneMap(mem, cur) IN
         SearchLoop(made.heap,
                    HeapPush(<<>>, NodeOf(made.heap, made.ref, <<>>, 0, goal)),
                    {}, 0, acts, goal)

\* planRecursive with current the map at cur: the maps after the call, the
\* error returned and the Actions of the plan returned.
RECURSIVE PlanRecursiveIn(_, _, _, _, _, _)
RECURSIVE PlanSubgoalsIn(_, _, _, _, _, _, _)
PlanRecursiveIn(mem, cur, goal, depth, refiner, maxDepth) ==
    IF DepthExceeded(depth, maxDepth)
    THEN [mem |-> mem, actions |-> <<>>,
          err |-> Wrap("maximum planning depth exceeded", ToString(maxDepth),
                       NoError)]
    ELSE IF IsSatisfied(goal.desired, mem[cur])
    THEN [mem |-> mem, actions |-> <<>>, err |-> NoError]
    ELSE IF RefinerIsAtomic(refiner, goal, mem[cur])
    THEN LET r == FindPlanIn(mem, cur, HierActions, goal.desired) IN
         [mem |-> r.mem, actions |-> r.plan.actions,
          err |-> IF r.plan.found THEN NoError
                  ELSE Wrap("no action plan found for atomic goal", goal.name,
                            NoError)]
    ELSE LET r == Refine(refiner, goal, mem[cur]) IN
         IF r.err # NoError
         THEN [mem |-> mem, actions |-> <<>>,
               err |-> Wrap("failed to refine goal", goal.name, r.err)]
         ELSE IF Len(r.subgoals) = 0
         THEN [mem |-> mem, actions |-> <<>>,
               err |-> Wrap("goal refinement produced no subgoals", goal.name,
                            NoError)]
         ELSE LET made == CloneMap(mem, cur) IN
              PlanSubgoalsIn(made.heap, made.ref, r.subgoals, 1, depth,
                             refiner, maxDepth)

\* planRecursive: the loop over the subgoals from index i on; the effects
\* of each subplan's Actions are applied to workingState.
PlanSubgoalsIn(mem, workingState, subgoals, i, depth, refiner, maxDepth) ==
    IF i > Len(subgoals)
    THEN [mem |-> mem, actions |-> <<>>, err |-> NoError]
    ELSE LET subplan == PlanRecursiveIn(mem, workingState, subgoals[i],
                                        depth + 1, refiner, maxDepth)
         IN
         IF subplan.err # NoError
         THEN [mem |-> subplan.mem, actions |-> <<>>,
               err |-> Wrap("failed to plan subgoal", subgoals[i].name,
                            subplan.err)]
         ELSE PlanSubgoalsIn(
                  [subplan.mem EXCEPT ![workingState] =
                      ApplyEffects(@, HierActions, subplan.actions)],
                  workingState, subgoals, i + 1, depth, refiner, maxDepth)

\* The maps of h as they are in mem once a planning call has returned: the
\* maps the call made are no longer referred to.
AfterPlanning(h, mem) == SubSeq(mem, 1, Len(h))

\* The effect of a planning call on the caller's maps.
Planned(on, call, mem) ==
    /\ ops < MaxOps
    /\ on \in Held
    /\ heap' = AfterPlanning(heap, mem)
    /\ last' = call
    /\ ops' = ops + 1
    /\ UNCHANGED <<orig, copy, running>>
    /\ UNCHANGED <<execVars, planVars, hierVars, buildVars, diskVars, otherVars>>

\* NewPlanner(HierActions).FindPlan(s or c, goal)
CallFindPlan(on, goal) ==
    LET r == FindPlanIn(heap, Ref(on), HierActions, goal.desired) IN
    Planned(on, Call("FindPlan", [goal |-> goal, plan |-> r.plan], on,
                     heap[Ref(on)], r.mem[Ref(on)],
                     [err |-> NoError, invoked |-> <<>>],
                     [pre |-> EmptyWS, eff |-> EmptyWS]), r.mem)

\* NewHierarchicalPlanner(NewPlanner(HierActions), refiner,
\* maxDepth).PlanHierarchical(s or c, goal)
CallPlanHierarchical(on, refiner, maxDepth, goal) ==
    LET r == PlanRecursiveIn(heap, Ref(on), goal, 0, refiner, maxDepth) IN
    Planned(on, Call("PlanHierarchical",
                     [goal |-> goal, refiner |-> refiner, maxDepth |-> maxDepth],
                     on, heap[Ref(on)], r.mem[Ref(on)],
                     [err |-> r.err, invoked |-> <<>>],
                     [pre |-> EmptyWS, eff |-> EmptyWS]), r.mem)

\* No caller of this kind is at work.
UnitUnused ==
    /\ heap = <<EmptyWS>>
    /\ orig = 1
    /\ copy = 0
    /\ last = NoCall
    /\ ops = 0
    /\ running = {}

\* ------------------------------------------------------- the graph files
\* SaveGraph and UpdateNodeStatus calls made on the same run directory.
MaxSaves == 2

\* What a path holds: no file, a file cut to length 0, a file with part of
\* the bytes written to it, or a file with all the bytes of data.
Absent == [state |-> "absent", data |-> <<>>]

Truncated == [state |-> "empty", data |-> <<>>]

Partial == [state |-> "partial", data |-> <<>>]

Complete(data) == [state |-> "complete", data |-> data]

GraphPath == "plan_graph.json"

NodePath(nodeID) == "nodes/" \o nodeID \o ".json"

\* The paths of the run's graph directory.
DiskPaths == {GraphPath} \cup {NodePath(id) : id \in {"node_1", "node_2", "node_3"}}

\* The error of a failed system call.
IOError == Wrap("i/o error", "", NoError)

\* os.WriteFile, first half: the file is opened with O_CREATE|O_TRUNC; ok
\* says whether the open succeeds.
OpenTruncate(fs, path, ok) ==
    IF ok THEN [fs EXCEPT ![path] = Truncated] ELSE fs

\* os.WriteFile, second half: the bytes are written and the file closed;
\* ok says whether all of them were written.
WriteAll(fs, path, data, ok) ==
    [fs EXCEPT ![path] = IF ok THEN Complete(data) ELSE Partial]

\* GraphPersistence.LoadGraph: os.ReadFile, then json.Unmarshal.
LoadGraph(fs, ok) ==
    IF ~ok \/ fs[GraphPath].state = "absent"
    THEN [err |-> Wrap("failed to read graph file", "", IOError),
          graph |-> <<>>]
    ELSE IF fs[GraphPath].state # "complete"
         THEN [err |-> Wrap("failed to unmarshal graph", "", NoError),
               graph |-> <<>>]
         ELSE [err |-> NoError, graph |-> fs[GraphPath].data]

\* No SaveGraph call is in progress.
NotSaving ==
    [active |-> FALSE, op |-> "none", graph |-> <<>>, pc |-> "none",
     todo |-> {}, node |-> "", failed |-> {}, status |-> ""]

\* A SaveGraph call on g, made by op ("SaveGraph" itself or
\* "UpdateNodeStatus" with the status it sets), about to write the graph
\* file; todo are the nodes whose files are still to be written and failed
\* the paths whose write failed so far.
Saving(op, g, status) ==
    [active |-> TRUE, op |-> op, graph |-> g, pc |-> "graph",
     todo |-> DOMAIN g, node |-> "", failed |-> {}, status |-> status]

\* executeNode: what it returns after the update of a node's status
\* returned updateErr, which is only logged: execErr after the failed
\* update, nil after the skipped and the completed update.
ExecuteNodeReturns(status, updateErr) ==
    IF status = "failed"
    THEN Wrap("action failed", "", NoError)
    ELSE NoError

\* What a call returned: op, the status it was to set, the error, the paths
\* whose write failed, and what executeNode returns after it.
Returned(op, status, err, failed) ==
    [op |-> op, status |-> status, err |-> err, failed |-> failed,
     nodeErr |-> ExecuteNodeReturns(status, err)]

NothingReturned == Returned("none", "", NoError, {})

NothingRead == [path |-> "", content |-> Absent]

\* SaveGraph(graph, runID) up to the write of the graph file: the graph
\* directory is made; ok says whether MkdirAll succeeds.
SaveGraphStart(g, ok) ==
    /\ ~saving.active
    /\ saves < MaxSaves
    /\ saves' = saves + 1
    /\ IF ok
       THEN /\ saving' = Saving("SaveGraph", g, "")
            /\ UNCHANGED saved
       ELSE /\ saved' = Returned("SaveGraph", "",
                           Wrap("failed to create graph directory", "", IOError),
                           {"graph"})
            /\ UNCHANGED saving
    /\ UNCHANGED <<files, reads>>
    /\ UNCHANGED <<execVars, planVars, hierVars, unitVars, buildVars,
                 otherVars>>

\* UpdateNodeStatus(runID, nodeID, status, result) up to the write of the
\* graph file, on a run whose graph was saved: the graph is loaded and the
\* node's status and result set.
UpdateNodeStatusStart(nodeID, status, ok) ==
    /\ ~saving.active
    /\ files[GraphPath].state # "absent"
    /\ saves < MaxSaves
    /\ saves' = saves + 1
    /\ LET loaded == LoadGraph(files, ok) IN
       IF loaded.err # NoError
       THEN /\ saved' = Returned("UpdateNodeStatus", status, loaded.err, {})
            /\ UNCHANGED saving
       ELSE IF nodeID \notin DOMAIN loaded.graph
            THEN /\ saved' = Returned("UpdateNodeStatus", status,
                                      Wrap("node not found", nodeID, NoError), {})
                 /\ UNCHANGED saving
            ELSE /\ saving' = Saving("UpdateNodeStatus",
                                  UpdateNodeStatus(loaded.graph, nodeID, status,
                                      IF status = "running"
                                      THEN NoResult
                                      ELSE NodeResult(status # "failed", NoError,
                                                      EmptyWS)),
                                  status)
                 /\ UNCHANGED saved
    /\ UNCHANGED <<files, reads>>
    /\ UNCHANGED <<execVars, planVars, hierVars, unitVars, buildVars,
                 otherVars>>

\* SaveGraph: os.WriteFile(graphPath, ...) opens and truncates the file.
OpenGraphFile(ok) ==
    /\ saving.active
    /\ saving.pc = "graph"
    /\ files' = OpenTruncate(files, GraphPath, ok)
    /\ IF ok
       THEN /\ saving' = [saving EXCEPT !.pc = "graph written"]
            /\ UNCHANGED saved
       ELSE /\ saving' = NotSaving
            /\ saved' = Returned(saving.op, saving.status,
                           Wrap("failed to write graph file", "", IOError),
                           {GraphPath})
    /\ UNCHANGED <<reads, saves>>
    /\ UNCHANGED <<execVars, planVars, hierVars, unitVars, buildVars,
                 otherVars>>

\* SaveGraph: os.WriteFile(graphPath, ...) writes the bytes; then the nodes
\* directory is made.
WriteGraphFile(ok, dirOk) ==
    /\ saving.active
    /\ saving.pc = "graph written"
    /\ files' = WriteAll(files, GraphPath, saving.graph, ok)
    /\ IF ok /\ dirOk
       THEN /\ saving' = [saving EXCEPT !.pc = "nodes"]
            /\ UNCHANGED saved
       ELSE /\ saving' = NotSaving
            /\ saved' = IF ~ok
                        THEN Returned(saving.op, saving.status,
                                 Wrap("failed to write graph file", "", IOError),
                                 {GraphPath})
                        ELSE Returned(saving.op, saving.status,
                                 Wrap("failed to create nodes directory", "",
                                      IOError),
                                 {"nodes"})
    /\ UNCHANGED <<reads, saves>>
    /\ UNCHANGED <<execVars, planVars, hierVars, unitVars, buildVars,
                 otherVars>>

\* SaveGraph: one turn of the loop over graph.Nodes, in the order the map
\* yields them: os.WriteFile(nodePath, ...) opens and truncates the file;
\* a failure is logged and the loop goes on.
OpenNodeFile(nodeID, ok) ==
    /\ saving.active
    /\ saving.pc = "nodes"
    /\ nodeID \in saving.todo
    /\ files' = OpenTruncate(files, NodePath(nodeID), ok)
    /\ saving' = IF ok
                 THEN [saving EXCEPT !.pc = "node written", !.node = nodeID]
                 ELSE [saving EXCEPT !.todo = @ \ {nodeID},
                                     !.failed = @ \cup {NodePath(nodeID)}]
    /\ UNCHANGED <<saved, reads, saves>>
    /\ UNCHANGED <<execVars, planVars, hierVars, unitVars, buildVars,
                 otherVars>>

\* SaveGraph: os.WriteFile(nodePath, ...) writes the bytes; a failure is
\* logged and the loop goes on.
WriteNodeFile(ok) ==
    /\ saving.active
    /\ saving.pc = "node written"
    /\ files' = WriteAll(files, NodePath(saving.node),
                         saving.graph[saving.node], ok)
    /\ saving' = [saving EXCEPT
                     !.pc = "nodes", !.node = "",
                     !.todo = @ \ {saving.node},
                     !.failed = IF ok THEN @ ELSE @ \cup {NodePath(saving.node)}]
    /\ UNCHANGED <<saved, reads, saves>>
    /\ UNCHANGED <<execVars, planVars, hierVars, unitVars, buildVars,
                 otherVars>>

\* SaveGraph: the loop over the nodes is through; nil is returned.
SaveGraphReturn ==
    /\ saving.active
    /\ saving.pc = "nodes"
    /\ saving.todo = {}
    /\ saved' = Returned(saving.op, saving.status, NoError, saving.failed)
    /\ saving' = NotSaving
    /\ UNCHANGED <<files, reads, saves>>
    /\ UNCHANGED <<execVars, planVars, hierVars, unitVars, buildVars,
                 otherVars>>

\* Another reader (the progress display's GetGraphStatus, which runs
\* beside Execute; an inspection tool; a restarted run) reads one of the
\* files.
ReadFile(path) ==
    /\ reads' = [path |-> path, content |-> files[path]]
    /\ UNCHANGED <<files, saving, saved, saves>>
    /\ UNCHANGED <<execVars, planVars, hierVars, unitVars, buildVars,
                 otherVars>>

\* The process dies in the middle of a SaveGraph call.
Crash ==
    /\ saving.active
    /\ saving' = NotSaving
    /\ saved' = Returned("crashed", saving.status, NoError, saving.failed)
    /\ UNCHANGED <<files, reads, saves>>
    /\ UNCHANGED <<execVars, planVars, hierVars, unitVars, buildVars,
                 otherVars>>

\* No graph directory is in use.
DiskUnused ==
    /\ files = [path \in DiskPaths |-> Absent]
    /\ saving = NotSaving
    /\ saved = NothingReturned
    /\ reads = NothingRead
    /\ saves = 0

\* ------------------------------------------- a second Execute invocation
\* No second Execute call has been made.
NoOther == [pc |-> "idle", loaded |-> <<>>]

\* Another GraphExecutor.Execute call on the same run, made whatever the
\* first one is doing: the graph is loaded and executeNode entered on the
\* root.
OtherExecuteStart ==
    /\ other.pc = "idle"
    /\ other' = [other EXCEPT !.pc = "enter"]
    /\ UNCHANGED <<execVars, planVars, hierVars, unitVars, buildVars, diskVars>>

\* The other call's UpdateNodeStatus(root, running), first half: LoadGraph.
OtherLoadGraph ==
    /\ other.pc = "enter"
    /\ other' = [pc |-> "loaded", loaded |-> graph]
    /\ UNCHANGED <<execVars, planVars, hierVars, unitVars, buildVars, diskVars>>

\* The other call's UpdateNodeStatus(root, running), second half: the
\* status is set on the graph it loaded and SaveGraph writes that graph.
OtherSaveGraph ==
    /\ other.pc = "loaded"
    /\ graph' = UpdateNodeStatus(other.loaded, RootNodeID, "running", NoResult)
    /\ other' = [other EXCEPT !.pc = "saved"]
    /\ UNCHANGED <<initialState, currentState, stack, phase, execErr, runs,
                   cancelled, startGraph, visited, calls>>
    /\ UNCHANGED <<planVars, hierVars, unitVars, buildVars, diskVars>>

\* The parts added to the engine's core are not in use.
RestUnused ==
    /\ UnitUnused
    /\ built = NoGraph
    /\ executed = NotExecuted
    /\ DiskUnused
    /\ other = NoOther

\* The executor before any Execute call.
ExecIdle ==
    /\ initialState = EmptyWS
    /\ currentState = EmptyWS
    /\ stack = <<>>
    /\ phase = "idle"
    /\ execErr = NoError
    /\ runs = 0
    /\ cancelled = FALSE
    /\ startGraph = graph
    /\ visited = <<>>
    /\ calls = <<>>

\* The planner before any FindPlan call.
PlanIdle ==
    /\ openSet = <<>>
    /\ closed = {}
    /\ iterations = 0
    /\ pPhase = "idle"
    /\ plan = NoPlan

Init ==
    /\ graph \in Graphs
    /\ initialState = EmptyWS
    /\ currentState = EmptyWS
    /\ stack = <<>>
    /\ phase = "idle"
    /\ execErr = NoError
    /\ runs = 0
    /\ cancelled = FALSE
    /\ startGraph = graph
    /\ visited = <<>>
    /\ calls = <<>>
    /\ pActions = <<>>
    /\ pCurrent = EmptyWS
    /\ pGoal = EmptyWS
    /\ PlanIdle
    /\ HierUnused
    /\ RestUnused

Next ==
    \/ \E ws \in InitialStates : ExecuteStart(ws)
    \/ EnterNode
    \/ SkipNode
    \/ BeginNode
    \/ RunAction
    \/ RunChild
    \/ CompleteNode
    \/ FailNode
    \/ Cancel

Spec == Init /\ [][Next]_vars

\* FindPlan on its own: the inputs are drawn by the initial state.
InitPlan ==
    /\ graph = Graph1([desired |-> EmptyWS, actions |-> <<>>])
    /\ ExecIdle
    /\ \/ /\ \E shape \in {1, 2, 3},
                cost \in (0..MaxCost) \X (0..MaxCost) \X (0..MaxCost) :
                pActions = PlannerActions(shape, cost)
          /\ pCurrent \in PlannerStates
          /\ pGoal \in PlannerGoals
       \/ /\ \E cost \in 0..1 :
                pActions \in {WideActions(cost), CyclicActions(cost)}
          /\ pCurrent = EmptyWS
          /\ pGoal = WS1("z", "true")
    /\ PlanIdle
    /\ HierUnused
    /\ RestUnused

NextPlan ==
    \/ FindPlanStart
    \/ FindPlanIterate
    \/ FindPlanGiveUp

SpecPlan == InitPlan /\ [][NextPlan]_vars

\* FindPlan's loop can make another iteration: the guard of FindPlanIterate,
\* whose step always changes iterations.
LoopRuns == pPhase = "search" /\ LoopGoesOn(openSet, iterations)

\* A FindPlan call under way keeps running: its steps are the steps of one
\* sequential loop.  The last conjunct is weak fairness of FindPlanIterate
\* with its enabling condition, LoopRuns, written out.
SpecPlanFair ==
    /\ SpecPlan
    /\ WF_vars(FindPlanStart)
    /\ WF_vars(FindPlanGiveUp)
    /\ ([]<>~LoopRuns \/ []<><<FindPlanIterate>>_vars)

\* PlanHierarchical on its own.
InitHier ==
    /\ graph = Graph1([desired |-> EmptyWS, actions |-> <<>>])
    /\ ExecIdle
    /\ pActions = <<>>
    /\ pCurrent = EmptyWS
    /\ pGoal = EmptyWS
    /\ openSet = <<>>
    /\ closed = {}
    /\ iterations = 0
    /\ pPhase = "done"
    /\ plan = NoPlan
    /\ HierUnused
    /\ RestUnused

\* The steps of a PlanHierarchical call under way.
PlanStep ==
    \/ PlanDepthExceeded
    \/ PlanSatisfied
    \/ PlanAtomic
    \/ FindPlanStart
    \/ FindPlanIterate
    \/ FindPlanGiveUp
    \/ PlanAtomicReturn
    \/ PlanRefine
    \/ PlanSubgoal
    \/ PlanComposite

NextHier ==
    \/ \E refiner \in Refiners, maxDepth \in 0..MaxDepthTried,
          current \in HierStates, name \in GoalNames :
          PlanHierarchical(refiner, maxDepth, current, GoalNamed(name))
    \/ PlanStep
    \/ BuildGraph
    \/ \E failing \in {{}, {"SetA"}} : ExecutePlan(failing)

SpecHier == InitHier /\ [][NextHier]_vars

\* A PlanHierarchical call under way keeps running: its steps are the
\* steps of one sequential call.
SpecHierFair == SpecHier /\ WF_vars(PlanStep)

\* A caller working on its own world states: Clone, Set, Apply and the
\* Execute of actions and wrapper actions.
InitUnit ==
    /\ graph = Graph1([desired |-> EmptyWS, actions |-> <<>>])
    /\ ExecIdle
    /\ pActions = <<>>
    /\ pCurrent = EmptyWS
    /\ pGoal = EmptyWS
    /\ PlanIdle
    /\ HierUnused
    /\ \E ws \in InitialStates : heap = <<ws>>
    /\ orig = 1
    /\ copy = 0
    /\ last = NoCall
    /\ ops = 0
    /\ running = {}
    /\ built = NoGraph
    /\ executed = NotExecuted
    /\ DiskUnused
    /\ other = NoOther

\* What the caller sets and applies.
UnitChanges == {WS1("a", "false"), WS1("n", "int:1"), WS2("a", "true", "c", "true")}

\* The goals handed to the planners: reachable by three actions, and
\* unreachable.
PlannedGoals == {GoalNamed("Root"), GoalNamed("GZ")}

\* The refiners of the hierarchical planners: Root refined in two levels,
\* and a refinement that never ends.
PlanningRefiners ==
    {Refiner("mock", r, Response(FALSE, {}, <<>>)) :
        r \in {("Root" :> <<"Mid", "GC">>) @@ ("Mid" :> <<"GA", "GB">>),
               ("Root" :> <<"Mid">>) @@ ("Mid" :> <<"Root">>)}}

\* The registered actions the wrapper actions are built around.
Wrappable == {"SetA", "SetB", "Seq"}

\* The callbacks that fail in the attempts of a RetryAction; no attempt
\* follows one that succeeds.
FailAts(wrapped, maxRetries) ==
    {f \in [1..(maxRetries + 1) -> 0..Callbacks(wrapped)] :
        \A i \in 1..maxRetries : f[i] = 0 => f[i + 1] = 0}

NextUnit ==
    \/ CallClone
    \/ \E on \in {"s", "c"}, key \in {"a", "c"}, value \in {"true", "false"} :
          CallSet(on, key, value)
    \/ \E on \in {"s", "c"}, ch \in UnitChanges : CallApply(on, ch)
    \/ \E on \in {"s", "c"}, name \in DOMAIN Registry, ctxDone \in BOOLEAN :
          \E failAt \in 0..Callbacks(name) :
             CallExecute(on, name, failAt, ctxDone)
    \/ \E on \in {"s", "c"}, wrapped \in Wrappable,
          maxRetries \in 0..MaxRetriesTried :
          \E failAts \in FailAts(wrapped, maxRetries) :
             CallRetryExecute(on, wrapped, maxRetries, failAts)
    \/ \E on \in {"s", "c"}, primary \in Wrappable,
          fallback \in Wrappable :
          \E failPrimary \in 0..Callbacks(primary),
             failFallback \in 0..Callbacks(fallback) :
             CallFallbackExecute(on, primary, fallback, failPrimary,
                                 failFallback)
    \/ \E on \in {"s", "c"}, wrapped \in Wrappable, timedOut \in BOOLEAN :
          \E failAt \in 0..Callbacks(wrapped),
             finished \in (IF timedOut THEN BOOLEAN ELSE {TRUE}) :
             CallTimeoutExecute(on, wrapped, failAt, timedOut, finished)
    \/ \E fail \in BOOLEAN : WrappedActionEnds(fail)
    \/ \E on \in {"s", "c"}, goal \in PlannedGoals : CallFindPlan(on, goal)
    \/ \E on \in {"s", "c"}, refiner \in PlanningRefiners,
          goal \in PlannedGoals :
          CallPlanHierarchical(on, refiner, MaxDepthTried, goal)

SpecUnit == InitUnit /\ [][NextUnit]_vars

\* The graph files of one run: the graph is saved, node statuses are
\* updated, other processes read the files, and any system call may fail.
InitDisk ==
    /\ graph = Graph1([desired |-> EmptyWS, actions |-> <<>>])
    /\ ExecIdle
    /\ pActions = <<>>
    /\ pCurrent = EmptyWS
    /\ pGoal = EmptyWS
    /\ PlanIdle
    /\ HierUnused
    /\ RestUnused

\* The graphs saved.
DiskGraphs ==
    {Graph1([desired |-> WS1("a", "true"), actions |-> <<"SetA">>]),
     Graph3(WS2("a", "true", "b", "true"),
            [desired |-> WS1("a", "true"), actions |-> <<"SetA">>],
            [desired |-> WS1("b", "true"), actions |-> <<"SetB">>])}

NextDisk ==
    \/ \E g \in DiskGraphs, ok \in BOOLEAN : SaveGraphStart(g, ok)
    \/ \E nodeID \in {"node_1", "node_2"},
          status \in {"running", "completed", "failed", "skipped"},
          ok \in BOOLEAN :
          UpdateNodeStatusStart(nodeID, status, ok)
    \/ \E ok \in BOOLEAN : OpenGraphFile(ok)
    \/ \E ok \in BOOLEAN, dirOk \in BOOLEAN : WriteGraphFile(ok, dirOk)
    \/ \E nodeID \in {"node_1", "node_2", "node_3"}, ok \in BOOLEAN :
          OpenNodeFile(nodeID, ok)
    \/ \E ok \in BOOLEAN : WriteNodeFile(ok)
    \/ SaveGraphReturn
    \/ \E path \in DiskPaths : ReadFile(path)
    \/ Crash

SpecDisk == InitDisk /\ [][NextDisk]_vars

\* Two Execute calls on the same run: the first as a whole, the second up
\* to its first status update.
TwoGraphs ==
    {Graph1([desired |-> WS1("a", "true"), actions |-> <<"SetA">>]),
     Graph3(WS2("a", "true", "b", "true"),
            [desired |-> WS1("a", "true"), actions |-> <<"SetA">>],
            [desired |-> WS1("b", "true"), actions |-> <<"SetB">>])}

InitTwo ==
    /\ graph \in TwoGraphs
    /\ ExecIdle
    /\ pActions = <<>>
    /\ pCurrent = EmptyWS
    /\ pGoal = EmptyWS
    /\ PlanIdle
    /\ HierUnused
    /\ RestUnused

NextTwo ==
    \/ Next
    \/ OtherExecuteStart
    \/ OtherLoadGraph
    \/ OtherSaveGraph

SpecTwo == InitTwo /\ [][NextTwo]_vars

\* HierarchicalPlan.AllActions
RECURSIVE AllActions(_)
RECURSIVE AllActionsOf(_, _)
AllActions(hp) ==
    IF Len(hp.Subplans) = 0 THEN hp.Actions ELSE AllActionsOf(hp.Subplans, 1)

AllActionsOf(subplans, i) ==
    IF i > Len(subplans)
    THEN <<>>
    ELSE AllActions(subplans[i]) \o AllActionsOf(subplans, i + 1)

\* The plan nodes of a hierarchical plan, the plan itself included.
RECURSIVE PlanNodes(_)
PlanNodes(hp) ==
    {hp} \cup UNION {PlanNodes(hp.Subplans[i]) : i \in 1..Len(hp.Subplans)}

\* ------------------------------------------------------ graph structure
Terminal == {"completed", "failed", "skipped"}

Range(seq) == {seq[i] : i \in 1..Len(seq)}

Last(seq) == seq[Len(seq)]

\* The first position of x in seq (0 when absent).
IndexOf(seq, x) ==
    IF x \in Range(seq)
    THEN CHOOSE i \in 1..Len(seq) :
            seq[i] = x /\ \A j \in 1..(i - 1) : seq[j] # x
    ELSE 0

\* GraphPersistence.buildPathFromRoot without the node itself.
RECURSIVE Ancestors(_, _)
Ancestors(g, nodeID) ==
    IF g[nodeID].ParentID = ""
    THEN {}
    ELSE {g[nodeID].ParentID} \cup Ancestors(g, g[nodeID].ParentID)

\* The node and everything below it.
Subtree(g, nodeID) ==
    {m \in DOMAIN g : m = nodeID \/ nodeID \in Ancestors(g, m)}

\* The left-to-right pre-order of the tree under nodeID, the order in which
\* BuildGraphFromPlan numbers the nodes.
RECURSIVE PreOrder(_, _)
RECURSIVE PreOrderOfChildren(_, _, _)
PreOrder(g, nodeID) == <<nodeID>> \o PreOrderOfChildren(g, nodeID, 1)

PreOrderOfChildren(g, nodeID, i) ==
    IF i > Len(g[nodeID].ChildIDs)
    THEN <<>>
    ELSE PreOrder(g, g[nodeID].ChildIDs[i])
            \o PreOrderOfChildren(g, nodeID, i + 1)

\* GraphExecutor.GetGraphStatus
GetGraphStatus(g) ==
    [TotalNodes     |-> Cardinality(DOMAIN g),
     PendingNodes   |-> Cardinality({n \in DOMAIN g : g[n].Status = "pending"}),
     RunningNodes   |-> Cardinality({n \in DOMAIN g : g[n].Status = "running"}),
     CompletedNodes |-> Cardinality({n \in DOMAIN g : g[n].Status = "completed"}),
     FailedNodes    |-> Cardinality({n \in DOMAIN g : g[n].Status = "failed"}),
     SkippedNodes   |-> Cardinality({n \in DOMAIN g : g[n].Status = "skipped"})]

\* The running call has seen an action return an error.
ActionFailed == calls # <<>> /\ Last(calls).err # NoError

\* ----------------------------------------------------------------- claims

\* C1: whenever Execute returns without error, every node of the persisted
\* graph has status completed or skipped (none is pending, running or
\* failed), also when a composite node was skipped.
C1_SuccessLeavesNoNodeBehind ==
    (phase = "done" /\ execErr = NoError) =>
        \A n \in DOMAIN graph : graph[n].Status \in {"completed", "skipped"}

\* C2: if an action returns an error while atomic node n executes, then no
\* node is entered after n and the nodes not entered keep the status they
\* had (pending on a fresh graph); and when Execute has returned, n is
\* failed with a result recording the error, every ancestor of n is failed
\* with an error wrapping the failing child's id, Execute's error is not
\* nil, and every other node entered before n is still completed or skipped.
C2_ActionErrorPropagates ==
    ActionFailed =>
        LET n == Last(calls).node
            e == Wrap("action failed", Last(calls).name, Last(calls).err)
        IN
        /\ Last(visited) = n
        /\ \A m \in DOMAIN graph \ Range(visited) :
              /\ graph[m] = startGraph[m]
              /\ runs = 1 => graph[m].Status = "pending"
        /\ phase = "done" =>
              /\ graph[n].Status = "failed"
              /\ graph[n].Result = NodeResult(FALSE, e, EmptyWS)
              /\ execErr # NoError
              /\ execErr = graph[RootNodeID].Result.ErrorMessage
              /\ \A m \in Ancestors(graph, n) :
                    /\ graph[m].Status = "failed"
                    /\ graph[m].Result.Present /\ ~graph[m].Result.Success
                    /\ \E c \in Range(graph[m].ChildIDs) :
                          /\ c \in Ancestors(graph, n) \cup {n}
                          /\ graph[m].Result.ErrorMessage =
                                Wrap("child node failed", c,
                                     graph[c].Result.ErrorMessage)
              /\ \A m \in Range(visited) \ (Ancestors(graph, n) \cup {n}) :
                    graph[m].Status \in {"completed", "skipped"}

\* C2 witness: node_4 failed after node_3 completed; node_5 was never
\* entered.
C2_Witness ==
    /\ phase = "done"
    /\ ActionFailed
    /\ Last(calls).node = "node_4"
    /\ "node_5" \in DOMAIN graph
    /\ graph["node_3"].Status = "completed"
    /\ graph["node_5"].Status = "pending"
    /\ graph["node_2"].Status = "failed"
    /\ graph["node_1"].Status = "failed"

\* C3: a node visited while the working state matches its desiredState
\* goes from running to skipped with a successful result, and neither its
\* actions nor any node or action below it is run.
C3_Step ==
    /\ \A n \in DOMAIN graph :
          (graph'[n].Status = "skipped" /\ graph'[n] # graph[n]) =>
              /\ graph[n].Status = "running"
              /\ graph'[n].Result.Present /\ graph'[n].Result.Success
              /\ calls' = calls
    /\ ( /\ phase = "running"
         /\ Top.pc = "check"
         /\ Matches(currentState, LoadNodeContext(graph, Top.node).DesiredState)
         /\ stack' # stack ) =>
              /\ graph'[Top.node].Status = "skipped"
              /\ graph'[Top.node].Result = NodeResult(TRUE, NoError, EmptyWS)
              /\ calls' = calls
    /\ \A n \in Range(visited') :
          graph'[n].Status = "skipped" =>
              /\ \A i \in 1..Len(calls') : calls'[i].node \notin Subtree(graph', n)
              /\ \A m \in Subtree(graph', n) \ {n} : m \notin Range(visited')

C3_SatisfiedNodeIsSkipped == [][C3_Step]_vars

\* C3 witness: the composite node_2 was skipped, its children were left
\* alone, and the run went on with node_5.
C3_Witness ==
    /\ phase = "done"
    /\ "node_5" \in DOMAIN graph
    /\ graph["node_2"].Status = "skipped"
    /\ graph["node_3"].Status = "pending"
    /\ graph["node_5"].Status = "completed"
    /\ calls # <<>>

\* C4: nodes are entered in left-to-right pre-order: children in ChildIDs
\* order, every earlier sibling being finished (completed or skipped, with
\* nothing below it running) before the next is entered; the actions of an
\* atomic node are invoked in ActionNames order; and every action sees the
\* state left by the actions invoked before it.
C4_PreOrderExecution ==
    LET order == PreOrder(graph, RootNodeID) IN
    /\ \A i, j \in 1..Len(visited) :
          i < j => IndexOf(order, visited[i]) < IndexOf(order, visited[j])
    /\ \A n \in Range(visited) :
          n # RootNodeID =>
              LET p == graph[n].ParentID
                  k == IndexOf(graph[p].ChildIDs, n)
              IN
              /\ IndexOf(visited, p) > 0
              /\ IndexOf(visited, p) < IndexOf(visited, n)
              /\ \A j \in 1..(k - 1) :
                    LET sib == graph[p].ChildIDs[j] IN
                    /\ IndexOf(visited, sib) > 0
                    /\ IndexOf(visited, sib) < IndexOf(visited, n)
                    /\ graph[sib].Status \in {"completed", "skipped"}
                    /\ \A m \in Subtree(graph, sib) :
                          /\ graph[m].Status # "running"
                          /\ \A f \in 1..Len(stack) : stack[f].node # m
    /\ \A i \in 1..Len(calls) :
          /\ calls[i].node \in Range(visited)
          /\ calls[i].name = graph[calls[i].node].ActionNames[calls[i].idx]
          /\ calls[i].seen = (IF i = 1 THEN initialState ELSE calls[i - 1].left)
          /\ i > 1 =>
                \/ /\ calls[i].node = calls[i - 1].node
                   /\ calls[i].idx = calls[i - 1].idx + 1
                \/ /\ IndexOf(order, calls[i - 1].node) < IndexOf(order, calls[i].node)
                   /\ calls[i].idx = 1
          /\ i = 1 => calls[i].idx = 1
    /\ calls # <<>> => Last(calls).left = currentState

\* C4 witness: a run that entered all five nodes and ran three actions.
C4_Witness ==
    /\ phase = "done"
    /\ execErr = NoError
    /\ Len(visited) = 5
    /\ Len(calls) >= 3
    /\ currentState # initialState

\* C5: a composite node has status completed only if each of its children
\* has status completed or skipped.
C5_CompletedCompositeHasFinishedChildren ==
    \A n \in DOMAIN graph :
        (~graph[n].IsAtomic /\ graph[n].Status = "completed") =>
            \A c \in Range(graph[n].ChildIDs) :
                graph[c].Status \in {"completed", "skipped"}

\* C5 witness: node_2 completed over one skipped and one completed child,
\* while the run is still going on.
C5_Witness ==
    /\ phase = "running"
    /\ "node_5" \in DOMAIN graph
    /\ graph["node_2"].Status = "completed"
    /\ graph["node_3"].Status = "skipped"
    /\ graph["node_4"].Status = "completed"

\* C6: within one Execute call a node's status changes only to running
\* when the node is entered (from pending on a fresh graph) and from
\* running to completed, failed or skipped; once the call has given a node
\* one of these, no later update of the call changes it.
C6_Step ==
    \A n \in DOMAIN graph :
        /\ (n \in Range(visited) /\ graph[n].Status \in Terminal) =>
              graph'[n].Status = graph[n].Status
        /\ graph'[n].Status # graph[n].Status =>
              \/ /\ graph'[n].Status = "running"
                 /\ n \notin Range(visited)
                 /\ runs = 1 => graph[n].Status = "pending"
              \/ /\ graph[n].Status = "running"
                 /\ graph'[n].Status \in Terminal

C6_TerminalStatusIsFinal == [][C6_Step]_vars

\* C6 witness: node_2 is completed while a later node of the same call is
\* running.
C6_Witness ==
    /\ phase = "running"
    /\ "node_3" \in DOMAIN graph
    /\ graph["node_2"].Status = "completed"
    /\ graph["node_3"].Status = "running"
    /\ "node_2" \in Range(visited)

\* C7: Execute called on a graph whose root is already completed or
\* skipped is a no-op: no node's status or result changes at any point of
\* the call, no action is invoked, and the status counts stay the same.
C7_ReExecuteIsNoOp ==
    (phase # "idle" /\ startGraph[RootNodeID].Status \in {"completed", "skipped"}) =>
        /\ graph = startGraph
        /\ calls = <<>>
        /\ GetGraphStatus(graph) = GetGraphStatus(startGraph)

\* C8: when Execute is called again after a run that failed, the nodes
\* whose persisted status is completed or skipped are not executed again:
\* their status does not change and none of their actions is invoked.
C8_ResumeKeepsFinishedNodes ==
    (phase # "idle" /\ startGraph[RootNodeID].Status = "failed") =>
        \A n \in DOMAIN graph :
            startGraph[n].Status \in {"completed", "skipped"} =>
                /\ graph[n].Status = startGraph[n].Status
                /\ \A i \in 1..Len(calls) : calls[i].node # n

\* C9: once the context is cancelled no further action is invoked, and a
\* call that passed a cancellation check point (before an action) with a
\* cancelled context returns an error with the running node and its
\* ancestors failed.
C9_CancellationStopsExecution ==
    /\ \A i \in 1..Len(calls) : ~calls[i].ctxDone
    /\ (phase = "done" /\ \E i \in 1..Len(calls) : calls[i].ctxDone) =>
          /\ execErr # NoError
          /\ graph[RootNodeID].Status = "failed"

\* The total costs of the action sequences of at most depth actions that
\* are applicable step by step from ws and end in a state satisfying goal.
RECURSIVE PlanCosts(_, _, _, _)
PlanCosts(ws, goal, acts, depth) ==
    (IF Matches(ws, goal) THEN {0} ELSE {})
    \cup (IF depth = 0
          THEN {}
          ELSE UNION { { acts[i].cost + c :
                           c \in PlanCosts(Apply(ws, acts[i].eff), goal, acts,
                                           depth - 1) } :
                       i \in {j \in 1..Len(acts) : Matches(ws, acts[j].pre)} })

\* C10: a plan returned by FindPlan has minimum cost: no sequence of
\* registered actions that is applicable step by step from the current
\* state and reaches the goal costs strictly less.
C10_PlanHasMinimumCost ==
    (pPhase = "done" /\ plan.found) =>
        \A c \in PlanCosts(pCurrent, pGoal, pActions, MaxPlanLen) : plan.cost <= c

\* Whether the named actions can be applied one after the other from ws,
\* each finding its preconditions matched, and end in a state matching goal.
RECURSIVE PlanValid(_, _, _, _)
PlanValid(ws, goal, acts, names) ==
    IF names = <<>>
    THEN Matches(ws, goal)
    ELSE LET a == ActionNamed(acts, Head(names)) IN
         /\ Matches(ws, a.pre)
         /\ PlanValid(Apply(ws, a.eff), goal, acts, Tail(names))

\* C11: every plan FindPlan returns is valid: from the current state each
\* action's preconditions match the state it is applied to, and the state
\* after the last action's effects matches the goal's desired state.
C11_ReturnedPlanIsValid ==
    (pPhase = "done" /\ plan.found) =>
        PlanValid(pCurrent, pGoal, pActions, plan.actions)

\* C11 witness: a returned plan of two actions whose second action has a
\* precondition that only the first one establishes.
C11_Witness ==
    /\ pPhase = "done"
    /\ plan.found
    /\ Len(plan.actions) = 2
    /\ ~Matches(pCurrent, ActionNamed(pActions, plan.actions[2]).pre)

\* C12: FindPlan returns a plan whenever some sequence of actions, each
\* applicable in turn, leads from the current state to a state satisfying
\* the goal, unless it made 1000 iterations first; and it returns no plan
\* whenever there is no such sequence.
C12_NoPlanOnlyWhenUnreachable ==
    pPhase = "done" =>
        IF PlanCosts(pCurrent, pGoal, pActions, MaxPlanLen) # {}
        THEN plan.found \/ iterations >= MaxIterations
        ELSE ~plan.found

\* C13: while the subgoals of a composite goal are planned in order, the
\* working state holds the effects of every atomic leaf action of every
\* subplan already planned, applied in order, leaves nested below a
\* composite subplan included; and that working state is what the next
\* sibling is planned against.
C13_EffectThreadingCoversSubplans ==
    \A f \in 1..Len(hStack) :
        hStack[f].pc = "loop" =>
            LET threaded == ApplyEffects(hStack[f].current, pActions,
                                         AllActionsOf(hStack[f].subplans, 1))
            IN
            /\ hStack[f].working = threaded
            /\ f < Len(hStack) => hStack[f + 1].current = threaded

\* The depth bookkeeping of planRecursive: calls are nested with depths 0,
\* 1, 2, ...; a call whose depth is beyond maxDepth does nothing but fail;
\* every plan node built so far has the depth of the call that built it,
\* which is at most maxDepth.
C14_DepthBounded ==
    /\ \A f \in 1..Len(hStack) :
          /\ hStack[f].depth = f - 1
          /\ hStack[f].depth > hMaxDepth =>
                f = Len(hStack) /\ hStack[f].pc = "enter"
          /\ \A i \in 1..Len(hStack[f].subplans) :
                /\ hStack[f].subplans[i].Depth = hStack[f].depth + 1
                /\ \A n \in PlanNodes(hStack[f].subplans[i]) :
                      /\ n.Depth <= hMaxDepth
                      /\ \A j \in 1..Len(n.Subplans) :
                            n.Subplans[j].Depth = n.Depth + 1
    /\ \A i \in 1..Len(hLog) : hLog[i].depth <= hMaxDepth
    /\ (hPhase = "done" /\ hResult.err = NoError) =>
          /\ hResult.plan.Depth = 0
          /\ \A n \in PlanNodes(hResult.plan) :
                /\ n.Depth <= hMaxDepth
                /\ \A j \in 1..Len(n.Subplans) :
                      n.Subplans[j].Depth = n.Depth + 1

\* C14: PlanHierarchical terminates for every refiner, cyclic ones
\* included: it fails as soon as the recursion passes maxDepth, no plan it
\* returns has a node deeper than maxDepth, the root has depth 0 and each
\* subplan its parent's depth plus 1.
C14_PlanHierarchicalTerminates ==
    /\ []C14_DepthBounded
    /\ (hPhase = "planning") ~> (hPhase = "done")

\* C14 witness: a cyclic refinement (Root -> Mid -> Root -> ...) planned
\* with maxDepth 3 has ended with the depth-exceeded error.
C14_Witness ==
    /\ hPhase = "done"
    /\ hMaxDepth = MaxDepthTried
    /\ hRefiner.kind = "mock"
    /\ "Mid" \in DOMAIN hRefiner.refinements
    /\ hRefiner.refinements["Mid"] = <<"Root">>
    /\ hResult.err # NoError
    /\ Last(hResult.err)[1] = "maximum planning depth exceeded"
    /\ Len(hResult.err) = hMaxDepth + 2

\* The Refine call logged at position i returned no subgoals and no error
\* for a goal that IsAtomic had declared not atomic.
RefinedToNothing(i) ==
    /\ hLog[i].op = "refine"
    /\ Refine(hRefiner, hLog[i].goal, hLog[i].current) =
          [err |-> NoError, subgoals |-> <<>>]

\* C15: when IsAtomic returned false but Refine returns no subgoals and no
\* error, the goal is treated as atomic: it is planned with the A* planner
\* and planning does not fail for lack of subgoals.
C15_EmptyRefinementIsAtomic ==
    \A i \in 1..Len(hLog) :
        RefinedToNothing(i) =>
            /\ ~(hPhase = "done" /\ i = Len(hLog) /\ hResult.err # NoError)
            /\ i < Len(hLog) =>
                  /\ hLog[i + 1].op = "plan"
                  /\ hLog[i + 1].goal = hLog[i].goal

\* The subgoal entries of the generator's response that lack a field.
IncompleteSubgoals ==
    {hRefiner.response.subgoals[i] : i \in
        {j \in 1..Len(hRefiner.response.subgoals) :
            hRefiner.response.subgoals[j].fields # AllFields}}

\* The generator's response is malformed, lacks the subgoals list or a
\* field of a subgoal, or has an empty subgoals list.
BadResponse ==
    \/ ~hRefiner.response.wellFormed
    \/ "subgoals" \notin hRefiner.response.fields
    \/ hRefiner.response.subgoals = <<>>
    \/ IncompleteSubgoals # {}

\* C16: with the LLM refiner, a planning call that refined a goal through
\* a bad response (malformed JSON, a missing field, an empty subgoals
\* list) returns an error and no plan, and no subgoal with a missing field
\* is turned into a goal and planned.
C16_BadResponseFailsPlanning ==
    (hRefiner.kind = "llm" /\ BadResponse
        /\ \E i \in 1..Len(hLog) : hLog[i].op = "refine") =>
        /\ hPhase = "done" => hResult.err # NoError
        /\ \A i \in 1..Len(hLog) :
              (hLog[i].depth > 0 /\ hLog[i].op = "plan") =>
                  hLog[i].goal \notin {SubgoalFromJSON(sg) : sg \in IncompleteSubgoals}

\* C17: Execute mutates the caller's world state in place: once Execute
\* has returned, the state the caller passed in holds the effects of every
\* action that ran, that is, it equals the state the last action left.
C17_CallerStateMutatedInPlace ==
    (phase = "done" /\ calls # <<>>) => initialState = Last(calls).left

\* The changes of the desired keys observed between two states, each with
\* its value in the later state.
ObservedChanges(desired, before, after) ==
    [k \in {x \in DOMAIN desired : Get(before, x) # Get(after, x)} |->
        Get(after, k)]

\* C18: when a node completes, its result's state_changes is exactly the
\* set of desiredState keys whose value changed between the start of the
\* node's visit and its completion, each with its observed value.
C18_Step ==
    \A n \in DOMAIN graph :
        (graph[n].Status = "running" /\ graph'[n].Status = "completed") =>
            graph'[n].Result.StateChanges =
                ObservedChanges(LoadNodeContext(graph, n).DesiredState,
                                Top.entry, currentState)

C18_StateChangesAreObservedChanges == [][C18_Step]_vars

\* The atomic nodes naming an action that is not in the executor's table.
UnresolvedNodes ==
    {n \in DOMAIN graph :
        \E i \in 1..Len(graph[n].ActionNames) :
            graph[n].ActionNames[i] \notin DOMAIN Registry}

\* The error says that an action name did not resolve.
ActionNotFound(err) == err # NoError /\ Last(err)[1] = "action not found"

\* C19: action names are resolved only when their node runs.  An
\* unresolved name makes a node fail only after the node was entered with
\* its goal unsatisfied and its loop reached that name; then the node ends
\* failed and Execute returns the error.  Starting Execute never fails for
\* that reason, and a run in which the nodes holding unresolved names are
\* skipped or never entered does not fail for it.
C19_NamesResolvedWhenNodeRuns ==
    /\ \A f \in 1..Len(stack) :
          (stack[f].pc = "fail" /\ ActionNotFound(stack[f].err)
              /\ Len(stack[f].err) = 1) =>
              LET n == stack[f].node IN
              /\ n \in Range(visited)
              /\ graph[n].ActionNames[stack[f].idx] \notin DOMAIN Registry
              /\ ~Matches(stack[f].entry, LoadNodeContext(graph, n).DesiredState)
              /\ \A i \in 1..(stack[f].idx - 1) :
                    graph[n].ActionNames[i] \in DOMAIN Registry
    /\ (phase = "running" /\ visited = <<>>) => execErr = NoError
    /\ phase = "done" =>
          /\ ActionNotFound(execErr) =>
                \E n \in UnresolvedNodes \cap Range(visited) :
                    /\ graph[n].Status = "failed"
                    /\ ActionNotFound(graph[n].Result.ErrorMessage)
                    /\ graph[RootNodeID].Status = "failed"
          /\ (\A n \in UnresolvedNodes :
                  n \notin Range(visited) \/ graph[n].Status = "skipped") =>
                ~ActionNotFound(execErr)
          /\ \A n \in UnresolvedNodes \cap Range(visited) :
                graph[n].Status \in {"skipped", "failed"}

\* C19 witness: Execute returned without error although node_3 names the
\* unregistered action "Ghost": node_3 was entered and skipped after
\* node_2 had run its actions.
C19_Witness ==
    /\ phase = "done"
    /\ execErr = NoError
    /\ "node_3" \in UnresolvedNodes
    /\ "node_3" \in Range(visited)
    /\ graph["node_3"].Status = "skipped"
    /\ graph["node_2"].Status = "completed"
    /\ calls # <<>>

\* C20: Execute of a SimpleAction or CompositeAction on a state that does
\* not match its preconditions returns an error, invokes neither the
\* execution callback nor any subaction, and leaves the state unchanged.
C20_UnmetPreconditionsAreRejected ==
    \A i \in 1..Len(calls) :
        ~Matches(calls[i].seen, Registry[calls[i].name].pre) =>
            /\ calls[i].err # NoError
            /\ calls[i].invoked = <<>>
            /\ calls[i].left = calls[i].seen

\* C20 witness: the composite action "Guarded" was executed on a state
\* without its precondition, after a simple action had run in the same
\* call.
C20_Witness ==
    /\ Len(calls) >= 2
    /\ Last(calls).name = "Guarded"
    /\ ~Matches(Last(calls).seen, Registry["Guarded"].pre)
    /\ calls[1].err = NoError

\* The methods that execute an action.
ExecuteOps == {"Execute", "Retry", "Fallback", "Timeout"}

\* C21: whenever an action's Execute returns nil, the state it was called
\* on matches every key of the action's declared Effects(); this is stated
\* for SimpleAction, CompositeAction, RetryAction, FallbackAction and
\* TimeoutAction.
C21_SuccessAppliesDeclaredEffects ==
    (last.op \in ExecuteOps /\ last.err = NoError) =>
        Matches(last.after, last.eff)

\* The keys the execution of the given actions writes.
Written(names) == UNION {DOMAIN Registry[names[i]].eff : i \in 1..Len(names)}

\* C22: a composite action called on a state meeting its preconditions
\* invokes its subactions in declared order; it returns nil only when all
\* of them were invoked and succeeded, and then its own effects hold; when
\* the callback of subaction i fails, the subactions after i are not
\* invoked, the composite's own effects are not applied, and the error
\* names the index (from 0) and the name of subaction i and wraps the
\* subaction's error.
C22_CompositeStopsAtFailedSubaction ==
    (/\ last.op = "Execute"
     /\ Registry[last.subject.name].kind = "composite"
     /\ Matches(last.before, last.pre)) =>
        LET subs == Registry[last.subject.name].subs
            i == last.subject.failAt
        IN
        /\ Len(last.invoked) <= Len(subs)
        /\ last.invoked = SubSeq(subs, 1, Len(last.invoked))
        /\ (last.err = NoError) =>
              last.invoked = subs /\ Matches(last.after, last.eff)
        /\ (last.err # NoError) =>
              \A k \in DOMAIN last.eff \ Written(last.invoked) :
                 Get(last.after, k) = Get(last.before, k)
        /\ (i >= 1 /\ ~last.subject.ctxDone) =>
              /\ last.invoked = SubSeq(subs, 1, i)
              /\ last.err = Wrap("failed at subaction",
                                 SubactionRef(i - 1, subs[i]),
                                 Wrap("execution failed", subs[i], NoError))

\* C22 witness: the second subaction of "Seq" failed after the first had
\* run and changed the state.
C22_Witness ==
    /\ last.op = "Execute"
    /\ last.subject.name = "Seq"
    /\ last.subject.failAt = 2
    /\ ~last.subject.ctxDone
    /\ last.invoked = <<"SetA", "SetB">>
    /\ last.after # last.before
    /\ last.err # NoError

\* C30: right after c = s.Clone() the two states match each other and s
\* is as it was; every later call on c (Set, Apply, the Execute of an
\* action) leaves s unchanged, and every later call on s leaves c
\* unchanged.
C30_Step ==
    (ops' = ops + 1) =>
        IF last'.op = "Clone"
        THEN /\ Matches(heap'[copy'], heap'[orig'])
             /\ Matches(heap'[orig'], heap'[copy'])
             /\ heap'[orig'] = heap[orig]
        ELSE (copy # 0) =>
                IF last'.on = "c"
                THEN heap'[orig] = heap[orig]
                ELSE heap'[copy] = heap[copy]

C30_CloneIsEqualAndIndependent == [][C30_Step]_vars

\* C30 witness: after c = s.Clone() of a non-empty state, a Set on c
\* changed c, and the two states no longer match.
C30_Witness ==
    /\ copy # 0
    /\ heap[orig] # EmptyWS
    /\ last.op = "Set"
    /\ last.on = "c"
    /\ last.after # last.before
    /\ heap[copy] = last.after
    /\ heap[orig] = last.before
    /\ ~Matches(heap[copy], heap[orig])

\* The sum of the costs of the named actions.
RECURSIVE SumCosts(_, _)
SumCosts(acts, names) ==
    IF names = <<>>
    THEN 0
    ELSE ActionNamed(acts, Head(names)).cost + SumCosts(acts, Tail(names))

\* C29: the cost of every plan FindPlan returns is the sum of the costs of
\* its actions, and when the current state already matches the goal
\* FindPlan returns the empty plan with cost 0.
C29_PlanCostIsSumOfActionCosts ==
    (pPhase = "done") =>
        /\ plan.found => plan.cost = SumCosts(pActions, plan.actions)
        /\ IsSatisfied(pGoal, pCurrent) => plan = Plan(<<>>, 0)

\* C29 witness: a returned plan of two actions with different positive
\* costs.
C29_Witness ==
    /\ pPhase = "done"
    /\ plan.found
    /\ Len(plan.actions) = 2
    /\ ActionNamed(pActions, plan.actions[1]).cost = 1
    /\ ActionNamed(pActions, plan.actions[2]).cost = 2
    /\ plan.cost = 3

\* C25: every node of a graph built by BuildGraphFromPlan from a plan that
\* PlanHierarchical returned is atomic iff it has no children iff it has at
\* least one action name.
C25_AtomicIffLeafIffHasActions ==
    \A id \in DOMAIN built.Nodes :
        LET node == built.Nodes[id] IN
        /\ node.IsAtomic <=> (node.ChildIDs = <<>>)
        /\ (node.ChildIDs = <<>>) <=> (node.ActionNames # <<>>)

\* How often x occurs in seq.
Occurrences(seq, x) == Cardinality({i \in 1..Len(seq) : seq[i] = x})

\* C26: in every built graph the parent and child references form a tree:
\* the root exists and has an empty parentId; every other node's parentId
\* names an existing node whose childIds hold the node's id exactly once;
\* every id in a childIds names an existing node whose parent is that node.
C26_ParentChildReferencesFormTree ==
    (built # NoGraph) =>
        LET nodes == built.Nodes IN
        /\ built.RootNodeID \in DOMAIN nodes
        /\ \A id \in DOMAIN nodes :
              /\ nodes[id].ID = id
              /\ (nodes[id].ParentID = "") <=> (id = built.RootNodeID)
              /\ (id # built.RootNodeID) =>
                    /\ nodes[id].ParentID \in DOMAIN nodes
                    /\ Occurrences(nodes[nodes[id].ParentID].ChildIDs, id) = 1
              /\ \A i \in 1..Len(nodes[id].ChildIDs) :
                    /\ nodes[id].ChildIDs[i] \in DOMAIN nodes
                    /\ nodes[nodes[id].ChildIDs[i]].ParentID = id
        /\ \A id \in DOMAIN nodes :
              id = built.RootNodeID \/ built.RootNodeID \in Ancestors(nodes, id)

\* C26 witness: a built graph with a composite node below the root and
\* leaves below both.
C26_Witness ==
    /\ built # NoGraph
    /\ \E id \in DOMAIN built.Nodes :
          /\ built.Nodes[id].ParentID = built.RootNodeID
          /\ Len(built.Nodes[id].ChildIDs) = 2
    /\ \E id \in DOMAIN built.Nodes :
          /\ built.Nodes[id].ParentID = built.RootNodeID
          /\ built.Nodes[id].ChildIDs = <<>>

\* The number of nodes of a plan tree.
RECURSIVE CountNodes(_)
RECURSIVE CountNodesOf(_, _)
CountNodes(hp) == 1 + CountNodesOf(hp.Subplans, 1)

CountNodesOf(subplans, i) ==
    IF i > Len(subplans)
    THEN 0
    ELSE CountNodes(subplans[i]) + CountNodesOf(subplans, i + 1)

\* C27: the graph built from a plan has as many nodes as the plan tree,
\* metadata totalNodes is that number, and metadata maxDepth is the
\* greatest depth of a node of the tree.
C27_NodeCountAndMaxDepth ==
    (built # NoGraph) =>
        /\ Cardinality(DOMAIN built.Nodes) = CountNodes(hResult.plan)
        /\ built.Metadata.TotalNodes = CountNodes(hResult.plan)
        /\ \E hp \in PlanNodes(hResult.plan) :
              built.Metadata.MaxDepth = hp.Depth
        /\ \A hp \in PlanNodes(hResult.plan) :
              hp.Depth <= built.Metadata.MaxDepth

\* C27 witness: a graph built from a plan tree of five nodes whose leaves
\* are three levels below the root.
C27_Witness ==
    /\ built # NoGraph
    /\ CountNodes(hResult.plan) = 5
    /\ built.Metadata.MaxDepth = 3
    /\ Cardinality(DOMAIN built.Nodes) = 5

\* C28: a node read back from disk has the id, parent, children, action
\* names and status it was saved with, and whenever the executor tests a
\* node's goal, the working state matches the desired state read back from
\* disk iff it matches the desired state the node was built with.
C28_ReloadedNodeMatchesAlike ==
    /\ \A id \in DOMAIN graph :
          LET loaded == LoadNodeContext(graph, id) IN
          /\ loaded.ID = graph[id].ID
          /\ loaded.ParentID = graph[id].ParentID
          /\ loaded.ChildIDs = graph[id].ChildIDs
          /\ loaded.ActionNames = graph[id].ActionNames
          /\ loaded.Status = graph[id].Status
    /\ (phase = "running" /\ Top.pc = "check") =>
          (GoalSatisfied(LoadNodeContext(graph, Top.node), currentState)
             <=> Matches(currentState, graph[Top.node].DesiredState))

\* C23: graph files are replaced atomically: at every instant each of
\* plan_graph.json and the node files is either missing or holds one
\* complete content, and no read by another reader finds a file empty or
\* partly written.
C23_GraphFilesReplacedAtomically ==
    /\ \A path \in DiskPaths : files[path].state \in {"absent", "complete"}
    /\ reads.content.state \in {"absent", "complete"}

\* C24: an I/O error on the graph files is surfaced: a SaveGraph or
\* UpdateNodeStatus call in which a system call failed returns an error,
\* and executeNode returns an error when the update that writes a node's
\* terminal status returned one.
C24_IOErrorsAreSurfaced ==
    /\ (saved.op \in {"SaveGraph", "UpdateNodeStatus"} /\ saved.failed # {}) =>
          saved.err # NoError
    /\ (saved.op = "UpdateNodeStatus" /\ saved.status \in Terminal
           /\ saved.err # NoError) =>
          saved.nodeErr # NoError

\* C31: a hierarchical plan is executable as planned: when the plan
\* PlanHierarchical(s, g) returned has been executed from s with action
\* callbacks that all succeed, Execute has returned no error.
C31_PlanExecutesAsPlanned ==
    (executed.done /\ executed.failing = {}) => executed.err = NoError

\* The node the next iteration of FindPlan pops has the lowest fCost of the
\* open set.
PopsLowestFCost ==
    (pPhase = "search" /\ Len(openSet) > 0) =>
        \A i \in 1..Len(openSet) :
            FCost(HeapPop(openSet).node) <= FCost(openSet[i])

\* C32: the node the next iteration of FindPlan pops has the lowest fCost
\* of the open set, and among the open nodes of that fCost it has the
\* lowest gCost.
C32_PopsLowestFCostThenLowestGCost ==
    /\ PopsLowestFCost
    /\ (pPhase = "search" /\ Len(openSet) > 0) =>
          \A i \in 1..Len(openSet) :
              FCost(HeapPop(openSet).node) = FCost(openSet[i]) =>
                  HeapPop(openSet).node.gCost <= openSet[i].gCost

\* The heuristic of a state is not negative and is 0 exactly when the state
\* satisfies the goal.
HeuristicIsZeroAtGoal(ws) ==
    /\ Distance(ws, pGoal) >= 0
    /\ (Distance(ws, pGoal) = 0) <=> IsSatisfied(pGoal, ws)

\* C33: the heuristic is admissible: for the state of every node FindPlan
\* has put on the open set, the start node included, h is not negative, is
\* 0 exactly when the state satisfies the goal, is the node's hCost, and is
\* at most the cost of every sequence of registered actions leading from
\* the state to a state that satisfies the goal.
C33_HeuristicIsAdmissible ==
    pPhase = "search" =>
    \A i \in 1..Len(openSet) :
          /\ HeuristicIsZeroAtGoal(openSet[i].state)
          /\ openSet[i].hCost = Distance(openSet[i].state, pGoal)
          /\ \A c \in PlanCosts(openSet[i].state, pGoal, pActions, MaxPlanLen) :
                openSet[i].hCost <= c

\* C34: the engine never retries: during one Execute call no entry of a
\* node's actionNames has its action executed twice, and no action is
\* executed after one that returned an error.
C34_EngineNeverRetries ==
    /\ \A i \in 1..Len(calls) : \A j \in 1..Len(calls) :
          (calls[i].node = calls[j].node /\ calls[i].idx = calls[j].idx) => i = j
    /\ \A i \in 1..Len(calls) : calls[i].err # NoError => i = Len(calls)

\* C34 witness: an Execute call has ended after two action executions, the
\* second of which failed, and a node with actions was never started.
C34_Witness ==
    /\ phase = "done"
    /\ Len(calls) = 2
    /\ calls[1].err = NoError
    /\ calls[2].err # NoError
    /\ calls[2].invoked # <<>>
    /\ \E id \in DOMAIN graph :
          graph[id].Status = "pending" /\ graph[id].ActionNames # <<>>

\* A step in which a map changes is a call the caller makes on it.
C35_Step == heap' # heap => ops' = ops + 1

\* C35: an action has finished all of its work when its Execute returns:
\* no goroutine of an action is still running once the call has returned,
\* and a world state changes only during a call made on it.
C35_ActionsFinishBeforeExecuteReturns ==
    /\ [](running = {})
    /\ [][C35_Step]_vars

\* A step changes the status and result of no node but the one whose
\* status the step updates: the node the first call is in, or the root
\* when the second call saves its first update.
LosesNoStatus ==
    \A id \in DOMAIN graph :
        graph'[id] # graph[id] =>
            \/ phase = "running" /\ other' = other /\ id = Top.node
            \/ other.pc = "loaded" /\ other'.pc = "saved" /\ id = RootNodeID

\* C36: Execute invocations on the same run are mutually exclusive: the
\* second call does not load or save the graph while the first is inside
\* Execute, and no step undoes a node status another call has written.
C36_ExecuteCallsAreMutuallyExclusive ==
    /\ [](~(phase = "running" /\ other.pc \in {"enter", "loaded"}))
    /\ [][LosesNoStatus]_vars

\* C37: the closed-set key is faithful: any two different world states the
\* search holds (the start state and the states of the open nodes) have
\* different String() keys, so a node dropped because its key is in the
\* closed set is a node whose state was visited.
C37_StateKeyIsFaithful ==
    LET held == {pCurrent} \cup {openSet[i].state : i \in 1..Len(openSet)} IN
    \A s1 \in held : \A s2 \in held :
        s1 # s2 => String(s1) # String(s2)

\* A node set to completed in this step has its goal achieved: the
\* executor's world state matches the desired state the executor loaded.
C38_Step ==
    \A id \in DOMAIN graph :
        (graph[id].Status # "completed" /\ graph'[id].Status = "completed") =>
            GoalSatisfied(LoadNodeContext(graph, id), currentState)

\* C38: a node marked completed has achieved its goal: at the moment the
\* executor sets a node, atomic or composite, to completed, its world
\* state matches the node's desired state.
C38_CompletedNodeAchievedItsGoal == [][C38_Step]_vars

\* C39: FindPlan terminates on every input: it never makes more than 1000
\* iterations of its loop, and a search under way ends with FindPlan
\* returning a plan or no plan, also with zero-cost actions and with
\* actions that undo each other's effects.
C39_FindPlanTerminates ==
    /\ [](iterations <= 1000)
    /\ (pPhase = "search") ~> (pPhase = "done")

\* C39 witness: a search has ended at the iteration cap with nodes still
\* open, and FindPlan returned no plan.
C39_Witness ==
    /\ pPhase = "done"
    /\ iterations = MaxIterations
    /\ Len(openSet) > 0
    /\ ~plan.found

\* A planning call made in this step leaves every map of the caller as it
\* was and has invoked no callback.
C40_Step ==
    (ops' = ops + 1 /\ last'.op \in {"FindPlan", "PlanHierarchical"}) =>
        /\ heap' = heap
        /\ last'.after = last'.before
        /\ last'.invoked = <<>>

\* C40: planning has no effect on the caller's state: FindPlan and
\* PlanHierarchical leave the world state passed by the caller unchanged,
\* every simulated effect going to a clone, and invoke no action's
\* executor, whether planning succeeds or fails.
C40_PlanningLeavesCallersStateUnchanged == [][C40_Step]_vars

\* C40 witness: PlanHierarchical has returned a plan for a goal that was
\* not satisfied and had to be refined, so effects were simulated.
C40_Witness ==
    /\ last.op = "PlanHierarchical"
    /\ last.err = NoError
    /\ ~IsSatisfied(last.subject.goal.desired, last.before)
    /\ last.subject.goal.name \in DOMAIN last.subject.refiner.refinements

====
